---- MODULE Spec2Model ----
(***************************************************************************)
(* The ledger implementations of the banking demo:                         *)
(*   - the Express/SQLite server (server/index.js), whose handlers share   *)
(*     one database connection and yield at every await;                   *)
(*   - the in-memory mock store (bankerService.ts customers array and      *)
(*     accountService makeTransaction), and the lookups of that store      *)
(*     when the demo customer is not in it (impl = "lookup");              *)
(*   - the pages and read services of the React app over that store        *)
(*     (impl = "app"), where makeTransaction is called by the Transactions *)
(*     page;                                                               *)
(*   - the Supabase client (createTransaction / get_current_balance);      *)
(*   - the TransactionModal of the Transactions page (impl = "modal"),    *)
(*     the search, type and sort controls of that page (impl =            *)
(*     "filters"), and AuthProvider with the login pages, the routes of   *)
(*     App and ProtectedRoute (impl = "router").                           *)
(* A deployment runs one of them; impl records which.                      *)
(* Amounts are whole currency units; JavaScript values that reach the      *)
(* handlers from a JSON body (numbers, strings, a missing field) are       *)
(* tagged values and the operators + - > <= ! coerce as JavaScript does.   *)
(***************************************************************************)
EXTENDS Integers, Sequences, FiniteSets, TLC

(* ------------------------------ bounds --------------------------------- *)
\* number of requests sent to the server (POST /api/account/transaction,
\* GET /api/account/balance, GET /api/banker/customers/:id), or of
\* createTransaction calls, in one run
MaxReq == 2

\* number of makeTransaction calls made on the mock store in one run
MaxCalls == 3

\* the number of submissions of the Transactions page
MaxSubmits == 2

\* the number of loginUser calls that wait for their timer at one time
MaxPending == 1

(* ------------------------- JavaScript values --------------------------- *)
Num(n) == [k |-> "num", n |-> n, s |-> << >>]
Str(s) == [k |-> "str", n |-> 0, s |-> s]
NaN == [k |-> "nan", n |-> 0, s |-> << >>]
Null == [k |-> "null", n |-> 0, s |-> << >>]
Undefined == [k |-> "undef", n |-> 0, s |-> << >>]

\* Infinity and -Infinity: n holds the sign
Infinity == [k |-> "inf", n |-> 1, s |-> << >>]
NegInfinity == [k |-> "inf", n |-> 0 - 1, s |-> << >>]

\* the string "abc" as its characters
Abc == << "a", "b", "c" >>

Digit(d) == CASE d = 0 -> "0" [] d = 1 -> "1" [] d = 2 -> "2" [] d = 3 -> "3"
              [] d = 4 -> "4" [] d = 5 -> "5" [] d = 6 -> "6" [] d = 7 -> "7"
              [] d = 8 -> "8" [] OTHER -> "9"

DigitVal(c) == CASE c = "0" -> 0 [] c = "1" -> 1 [] c = "2" -> 2 [] c = "3" -> 3
                 [] c = "4" -> 4 [] c = "5" -> 5 [] c = "6" -> 6 [] c = "7" -> 7
                 [] c = "8" -> 8 [] OTHER -> 9

IsDigit(c) == c \in {"0", "1", "2", "3", "4", "5", "6", "7", "8", "9"}

\* UTF-16 code unit of the characters that occur
CharCode(c) == CASE c = "-" -> 45 [] c = "." -> 46 [] IsDigit(c) -> 48 + DigitVal(c)
                 [] c = "I" -> 73 [] c = "t" -> 116 [] c = "y" -> 121
                 [] c = "N" -> 78 [] c = "a" -> 97 [] c = "b" -> 98
                 [] c = "c" -> 99 [] c = "d" -> 100 [] c = "e" -> 101
                 [] c = "f" -> 102 [] c = "i" -> 105 [] c = "l" -> 108
                 [] c = "n" -> 110 [] OTHER -> 117

RECURSIVE NatDigits(_)
NatDigits(n) == IF n < 10 THEN << Digit(n) >>
                ELSE Append(NatDigits(n \div 10), Digit(n % 10))

\* Number.prototype.toString for an integer
NumToString(n) == IF n < 0 THEN << "-" >> \o NatDigits(0 - n) ELSE NatDigits(n)

\* ToString
JsToString(v) == CASE v.k = "num" -> NumToString(v.n)
                   [] v.k = "str" -> v.s
                   [] v.k = "nan" -> << "N", "a", "N" >>
                   [] v.k = "null" -> << "n", "u", "l", "l" >>
                   [] v.k = "inf" -> IF v.n > 0 THEN << "I", "n", "f", "i", "n", "i", "t", "y" >>
                                     ELSE << "-", "I", "n", "f", "i", "n", "i", "t", "y" >>
                   [] OTHER -> << "u", "n", "d", "e", "f", "i", "n", "e", "d" >>

RECURSIVE DigitsValue(_)
DigitsValue(s) == IF s = << >> THEN 0
                  ELSE 10 * DigitsValue(SubSeq(s, 1, Len(s) - 1)) + DigitVal(s[Len(s)])

AllDigits(s) == s # << >> /\ \A i \in 1..Len(s) : IsDigit(s[i])

\* a string that reads as a decimal integer
IsNumericString(s) == \/ AllDigits(s)
                      \/ Len(s) > 1 /\ s[1] = "-" /\ AllDigits(Tail(s))

StringToInt(s) == IF s[1] = "-" THEN 0 - DigitsValue(Tail(s)) ELSE DigitsValue(s)

\* ToNumber
JsToNumber(v) == CASE v.k = "num" -> v
                   [] v.k = "inf" -> v
                   [] v.k = "null" -> Num(0)
                   [] v.k = "str" -> IF v.s = << >> THEN Num(0)
                                     ELSE IF IsNumericString(v.s)
                                          THEN Num(StringToInt(v.s))
                                     ELSE IF v.s = << "I", "n", "f", "i", "n", "i", "t", "y" >>
                                          THEN Infinity
                                     ELSE IF v.s = << "-", "I", "n", "f", "i", "n", "i", "t", "y" >>
                                          THEN NegInfinity
                                          ELSE NaN
                   [] OTHER -> NaN

\* x + y of two numbers, either of which may be NaN or infinite
NumberAdd(x, y) ==
  IF x.k = "nan" \/ y.k = "nan" THEN NaN
  ELSE IF x.k = "inf" /\ y.k = "inf" THEN (IF x.n = y.n THEN x ELSE NaN)
  ELSE IF x.k = "inf" THEN x
  ELSE IF y.k = "inf" THEN y
  ELSE Num(x.n + y.n)

\* -x of a number
NumberNegate(x) == IF x.k = "nan" THEN NaN ELSE [x EXCEPT !.n = 0 - @]

\* x > y of two numbers
NumberGt(x, y) ==
  IF x.k = "nan" \/ y.k = "nan" THEN FALSE
  ELSE IF x.k = "inf" THEN x.n > 0 /\ ~(y.k = "inf" /\ y.n > 0)
  ELSE IF y.k = "inf" THEN y.n < 0
  ELSE x.n > y.n

\* a + b : concatenation when either side is a string, else numeric
JsAdd(a, b) == IF a.k = "str" \/ b.k = "str"
               THEN Str(JsToString(a) \o JsToString(b))
               ELSE LET x == JsToNumber(a)
                        y == JsToNumber(b)
                    IN NumberAdd(x, y)

\* a - b : always numeric
JsSub(a, b) == LET x == JsToNumber(a)
                   y == JsToNumber(b)
               IN NumberAdd(x, NumberNegate(y))

RECURSIVE StrLess(_, _)
\* s sorts strictly before t by code units
StrLess(s, t) == IF t = << >> THEN FALSE
                 ELSE IF s = << >> THEN TRUE
                 ELSE IF CharCode(s[1]) # CharCode(t[1])
                      THEN CharCode(s[1]) < CharCode(t[1])
                      ELSE StrLess(Tail(s), Tail(t))

\* a > b : two strings compare by code units, otherwise as numbers; NaN is
\* never greater
JsGt(a, b) == IF a.k = "str" /\ b.k = "str" THEN StrLess(b.s, a.s)
              ELSE LET x == JsToNumber(a)
                       y == JsToNumber(b)
                   IN NumberGt(x, y)

\* a <= 0
JsLeZero(a) == LET x == JsToNumber(a) IN x.k # "nan" /\ ~NumberGt(x, Num(0))

\* !a
JsNot(a) == \/ a.k \in {"undef", "null", "nan"}
            \/ a.k = "num" /\ a.n = 0
            \/ a.k = "str" /\ a.s = << >>

\* a || b
JsOr(a, b) == IF JsNot(a) THEN b ELSE a

IsNum(v) == v.k = "num"

(* --------------------------- request inputs ---------------------------- *)
\* { type, amount } bodies with a valid kind and a positive number
ValidBodies == { << "deposit", Num(1500) >>, << "withdrawal", Num(1500) >>,
                 << "deposit", Num(5000) >>, << "withdrawal", Num(5000) >> }

\* bodies whose amount is a string, zero, negative or missing, or whose
\* type is another word or missing
OddBodies == { << "deposit", Str(Abc) >>, << "withdrawal", Str(Abc) >>,
               << "deposit", Num(0) >>, << "deposit", Num(0 - 5) >>,
               << "withdrawal", Undefined >>, << "transfer", Num(1500) >>,
               << "", Num(1500) >> }

\* the requests that are sent: who sends which body
ReqInputs == ({"johndoe"} \X (ValidBodies \cup OddBodies))
             \cup ({"janedoe"} \X { << "deposit", Num(1500) >>, << "withdrawal", Num(5000) >> })
             \cup ({"banker"} \X { << "deposit", Num(1500) >> })

ReqIds == 1..MaxReq

(* ------------------------- SQLite server state ------------------------- *)
\* accounts, transactions: the tables as the one connection sees them;
\* txActive, txSnapshot: the open transaction and what ROLLBACK restores;
\* req: the requests; serial: no transaction request has yet been received
\* while another was between its first await and its end; clock: the
\* latest reading of the clock that was stored, which is the second
\* CURRENT_TIMESTAMP showed at the latest INSERT, counted from the second of
\* seedInitialData, and on the mock store the millisecond of the latest
\* new Date() of makeTransaction or handleTransactionSubmit;
\* customers, calls: the mock store and the makeTransaction calls;
\* page: the state of the Transactions page; got: what the read service
\* called in the last step returned; sbTransactions, sbCalls: the Supabase
\* table and the createTransaction calls; browser: localStorage 'bankUser',
\* the state of AuthProvider, the location of the router and the loginUser
\* calls that wait for their timer
VARIABLES impl, accounts, transactions, txActive, txSnapshot, req, serial, got,
          customers, calls, page, sbTransactions, sbCalls, browser, clock

serverVars == << accounts, transactions, txActive, txSnapshot, req, serial, clock >>

mockVars == << customers, calls >>

appVars == << page, got >>

sbVars == << sbTransactions, sbCalls >>

otherVars == << impl, customers, calls, page, got, sbTransactions, sbCalls, browser >>

\* what may pass between two readings of the clock that are stored: nothing
\* that the resolution of the reading shows, or something (seconds for
\* CURRENT_TIMESTAMP, milliseconds for new Date())
Elapsed == {0, 1}

\* got when the step sent no response of a read operation
NoResponse == [op |-> "", arg |-> "", error |-> "", value |-> << >>]

\* seedInitialData: the customers, in insertion order
SeedCustomers == << "johndoe", "janedoe", "alice" >>

SeedBalance == 5000

\* users.role
RoleOf(u) == IF u = "banker" THEN "banker" ELSE "customer"

\* accounts after seedInitialData: one account per customer, keyed by user_id
SeedAccounts == [u \in {SeedCustomers[i] : i \in 1..Len(SeedCustomers)} |-> Num(SeedBalance)]

\* the seconds CURRENT_TIMESTAMP shows at the INSERTs of seedInitialData,
\* counted from the first: the INSERTs are awaited one by one, and a second
\* may begin between two of them
SeedSeconds == {seconds \in [1..Len(SeedCustomers) -> 0..(Len(SeedCustomers) - 1)] :
                  /\ seconds[1] = 0
                  /\ \A i \in 2..Len(SeedCustomers) : seconds[i] - seconds[i - 1] \in Elapsed}

\* transactions after seedInitialData: one 'Initial deposit' per account;
\* created_at is the second of the clock at its INSERT
SeedTransactions(seconds) == [i \in 1..Len(SeedCustomers) |->
                               [id |-> 0 - i, account_id |-> SeedCustomers[i],
                                type |-> "deposit", amount |-> Num(SeedBalance),
                                created_at |-> seconds[i]]]

\* a value as a REAL-affinity column keeps it: a number stays, NaN and
\* undefined become NULL, text that reads as a number is converted
SqlReal(v) == CASE v.k = "num" -> v
                [] v.k = "str" -> IF IsNumericString(v.s) THEN Num(StringToInt(v.s)) ELSE v
                [] OTHER -> Null

NoSnapshot == [accounts |-> << >>, transactions |-> << >>]

IdleReq == [pc |-> "idle", route |-> "", param |-> "", user |-> "", type |-> "", amount |-> Undefined,
            balance |-> Undefined, newBalance |-> Undefined,
            results |-> << >>, status |-> 0, error |-> ""]

\* res.status(code).json({ error })
Respond(q, code, msg) == [q EXCEPT !.pc = "done", !.status = code, !.error = msg]

\* what is on disk: the connection's state, or the state at BEGIN while a
\* transaction is open
Committed == IF txActive THEN txSnapshot
             ELSE [accounts |-> accounts, transactions |-> transactions]

\* the funds check left out
InsufficientFundsSkipped(type, amount, balance) == FALSE

\* the funds check with >= in place of >
InsufficientFundsGe(type, amount, balance) ==
  type = "withdrawal" /\ (JsGt(amount, balance) \/ amount = balance)

\* type === 'withdrawal' && amount > balance, the funds check of the server
\* handler, of makeTransaction and of createTransaction
InsufficientFunds(type, amount, balance) == type = "withdrawal" /\ JsGt(amount, balance)

\* a newBalance whose two branches are exchanged
NewBalanceExchanged(type, amount, balance) == IF type = "deposit" THEN JsSub(balance, amount)
                                              ELSE JsAdd(balance, amount)

\* newBalance = type === 'deposit' ? balance + amount : balance - amount
NewBalance(type, amount, balance) == IF type = "deposit" THEN JsAdd(balance, amount)
                                     ELSE JsSub(balance, amount)

\* !type || !amount || amount <= 0
InvalidData(type, amount) == type = "" \/ JsNot(amount) \/ JsLeZero(amount)

\* the routes of the requests
PostTransaction == "POST /api/account/transaction"

GetAccountBalanceRoute == "GET /api/account/balance"

GetCustomerRoute == "GET /api/banker/customers/:id"

GetTransactionsRoute == "GET /api/account/transactions"

GetCustomersRoute == "GET /api/banker/customers"

GetCustomerTransactionsRoute == "GET /api/banker/customers/:id/transactions"

GetStatsRoute == "GET /api/banker/stats"

\* requests that have left the handler: answered, or ended by a throw
Finished(r) == req[r].pc \in {"done", "thrown"}

\* requests that are between their first await and their end
InFlight(r) == req[r].pc \notin {"idle", "done", "thrown"}

\* the transaction handler with the role check left out
ReceiveAnyRole(r, u, t, a) ==
  /\ impl = "server"
  /\ req[r].pc = "idle"
  /\ \A p \in ReqIds : p < r => req[p].pc # "idle"
  /\ LET q == [req[r] EXCEPT !.route = PostTransaction, !.user = u, !.type = t, !.amount = a]
     IN req' = [req EXCEPT ![r] =
                  IF InvalidData(t, a) THEN Respond(q, 400, "Invalid transaction data")
                  ELSE IF t # "deposit" /\ t # "withdrawal"
                       THEN Respond(q, 400, "Invalid transaction type")
                  ELSE [q EXCEPT !.pc = "getAccount"]]
  /\ UNCHANGED << otherVars, clock, accounts, transactions, txActive, txSnapshot >>
  /\ serial' = (serial /\ (req'[r].pc = "getAccount" =>
                              \A p \in ReqIds : req[p].route = PostTransaction => ~InFlight(p)))

\* auth, the role check and the validation of the body, up to the first
\* await of the handler
Receive(r, u, t, a) ==
  /\ impl = "server"
  /\ req[r].pc = "idle"
  /\ \A p \in ReqIds : p < r => req[p].pc # "idle"
  /\ LET q == [req[r] EXCEPT !.route = PostTransaction, !.user = u, !.type = t, !.amount = a]
     IN req' = [req EXCEPT ![r] =
                  IF RoleOf(u) # "customer" THEN Respond(q, 403, "Access denied")
                  ELSE IF InvalidData(t, a) THEN Respond(q, 400, "Invalid transaction data")
                  ELSE IF t # "deposit" /\ t # "withdrawal"
                       THEN Respond(q, 400, "Invalid transaction type")
                  ELSE [q EXCEPT !.pc = "getAccount"]]
  /\ UNCHANGED << otherVars, clock, accounts, transactions, txActive, txSnapshot >>
  /\ serial' = (serial /\ (req'[r].pc = "getAccount" =>
                              \A p \in ReqIds : req[p].route = PostTransaction => ~InFlight(p)))

\* SELECT * FROM accounts WHERE user_id = ?, then the funds check
GetAccount(r) ==
  /\ impl = "server"
  /\ req[r].pc = "getAccount"
  /\ LET q == req[r]
     IN req' = [req EXCEPT ![r] =
                  IF q.user \notin DOMAIN accounts THEN Respond(q, 404, "Account not found")
                  ELSE LET bal == accounts[q.user]
                       IN IF InsufficientFunds(q.type, q.amount, bal)
                          THEN Respond([q EXCEPT !.balance = bal], 400, "Insufficient funds")
                          ELSE [q EXCEPT !.pc = "begin", !.balance = bal,
                                         !.newBalance = NewBalance(q.type, q.amount, bal)]]
  /\ UNCHANGED << otherVars, clock, accounts, transactions, txActive, txSnapshot >>
  /\ UNCHANGED serial

\* BEGIN TRANSACTION on the shared connection: an error when one is open
Begin(r) ==
  /\ impl = "server"
  /\ req[r].pc = "begin"
  /\ IF txActive
     THEN /\ req' = [req EXCEPT ![r].pc = "rollback"]
          /\ UNCHANGED << txActive, txSnapshot >>
     ELSE /\ req' = [req EXCEPT ![r].pc = "update"]
          /\ txActive' = TRUE
          /\ txSnapshot' = [accounts |-> accounts, transactions |-> transactions]
  /\ UNCHANGED << otherVars, clock, accounts, transactions >>
  /\ UNCHANGED serial

\* UPDATE accounts SET balance = ? WHERE id = ?
Update(r) ==
  /\ impl = "server"
  /\ req[r].pc = "update"
  /\ accounts' = [accounts EXCEPT ![req[r].user] = SqlReal(req[r].newBalance)]
  /\ req' = [req EXCEPT ![r].pc = "insert"]
  /\ UNCHANGED << otherVars, clock, transactions, txActive, txSnapshot >>
  /\ UNCHANGED serial

\* INSERT INTO transactions (id, account_id, type, amount, description),
\* elapsed seconds after the latest INSERT; created_at defaults to
\* CURRENT_TIMESTAMP, which has whole seconds
Insert(r, elapsed) ==
  /\ impl = "server"
  /\ req[r].pc = "insert"
  /\ clock' = clock + elapsed
  /\ transactions' = Append(transactions,
                            [id |-> r, account_id |-> req[r].user,
                             type |-> req[r].type, amount |-> SqlReal(req[r].amount),
                             created_at |-> clock'])
  /\ req' = [req EXCEPT ![r].pc = "commit"]
  /\ UNCHANGED << otherVars, accounts, txActive, txSnapshot >>
  /\ UNCHANGED serial

\* COMMIT, then res.json({ success: true, transactionId, newBalance }); an
\* error when no transaction is open
Commit(r) ==
  /\ impl = "server"
  /\ req[r].pc = "commit"
  /\ IF txActive
     THEN /\ txActive' = FALSE
          /\ txSnapshot' = NoSnapshot
          /\ req' = [req EXCEPT ![r].pc = "done", ![r].status = 200]
     ELSE /\ req' = [req EXCEPT ![r].pc = "rollback"]
          /\ UNCHANGED << txActive, txSnapshot >>
  /\ UNCHANGED << otherVars, clock, accounts, transactions >>
  /\ UNCHANGED serial

\* the catch block: ROLLBACK, then 500; ROLLBACK with no transaction open
\* rejects inside the catch block and the handler ends without a response
Rollback(r) ==
  /\ impl = "server"
  /\ req[r].pc = "rollback"
  /\ IF txActive
     THEN /\ accounts' = txSnapshot.accounts
          /\ transactions' = txSnapshot.transactions
          /\ txActive' = FALSE
          /\ txSnapshot' = NoSnapshot
          /\ req' = [req EXCEPT ![r] = Respond(req[r], 500, "Server error")]
     ELSE /\ req' = [req EXCEPT ![r].pc = "thrown"]
          /\ UNCHANGED << accounts, transactions, txActive, txSnapshot >>
  /\ UNCHANGED << otherVars, clock >>
  /\ UNCHANGED serial

\* the ids a banker asks GET /api/banker/customers/:id for
CustomerParams == {"johndoe", "nobody"}

\* GET /api/banker/customers/:id as request r: the role check, the SELECT
\* of the customer joined with the account, and the response
GetCustomer(r, u, id) ==
  /\ impl = "server"
  /\ req[r].pc = "idle"
  /\ \A p \in ReqIds : p < r => req[p].pc # "idle"
  /\ LET q == [req[r] EXCEPT !.route = GetCustomerRoute, !.user = u, !.param = id]
     IN req' = [req EXCEPT ![r] =
                  IF RoleOf(u) # "banker" THEN Respond(q, 403, "Access denied")
                  ELSE IF id \notin DOMAIN accounts \/ RoleOf(id) # "customer"
                       THEN Respond(q, 404, "Customer not found")
                  ELSE [q EXCEPT !.pc = "done", !.status = 200, !.balance = accounts[id]]]
  /\ UNCHANGED << otherVars, clock, accounts, transactions, txActive, txSnapshot, serial >>

\* the users whose GET /api/account/balance requests are sent
BalanceReaders == {"johndoe", "banker"}

\* the balance endpoint answering with the seeded balance
GetBalanceOfSeed(r, u) ==
  /\ impl = "server"
  /\ req[r].pc = "idle"
  /\ \A p \in ReqIds : p < r => req[p].pc # "idle"
  /\ LET q == [req[r] EXCEPT !.route = GetAccountBalanceRoute, !.user = u]
     IN req' = [req EXCEPT ![r] =
                  IF RoleOf(u) # "customer" THEN Respond(q, 403, "Access denied")
                  ELSE IF u \notin DOMAIN accounts THEN Respond(q, 404, "Account not found")
                  ELSE [q EXCEPT !.pc = "done", !.status = 200, !.balance = Num(SeedBalance)]]
  /\ UNCHANGED << otherVars, clock, accounts, transactions, txActive, txSnapshot, serial >>

\* GET /api/account/balance as request r: the role check, the SELECT on the
\* shared connection, and the response; balance holds the balance sent
GetBalance(r, u) ==
  /\ impl = "server"
  /\ req[r].pc = "idle"
  /\ \A p \in ReqIds : p < r => req[p].pc # "idle"
  /\ LET q == [req[r] EXCEPT !.route = GetAccountBalanceRoute, !.user = u]
     IN req' = [req EXCEPT ![r] =
                  IF RoleOf(u) # "customer" THEN Respond(q, 403, "Access denied")
                  ELSE IF u \notin DOMAIN accounts THEN Respond(q, 404, "Account not found")
                  ELSE [q EXCEPT !.pc = "done", !.status = 200, !.balance = accounts[u]]]
  /\ UNCHANGED << otherVars, clock, accounts, transactions, txActive, txSnapshot, serial >>

\* the users whose requests to the /api/banker endpoints are sent
BankerCallers == {"banker", "johndoe"}

\* the rows of one account as ORDER BY created_at DESC returns them: the
\* later second first, and the rows of one second in the order of their
\* insertion
RowsNewestFirst(rows, a) ==
  LET mine == SelectSeq(rows, LAMBDA x : x.account_id = a)
      before(i) == {j \in 1..Len(mine) : \/ mine[j].created_at > mine[i].created_at
                                         \/ /\ mine[j].created_at = mine[i].created_at
                                            /\ j < i}
  IN [p \in 1..Len(mine) |-> mine[CHOOSE i \in 1..Len(mine) : Cardinality(before(i)) = p - 1]]

\* GET /api/account/transactions as request r: the role check and the
\* SELECT of the caller's account
ListTransactions(r, u) ==
  /\ impl = "server"
  /\ req[r].pc = "idle"
  /\ \A p \in ReqIds : p < r => req[p].pc # "idle"
  /\ LET q == [req[r] EXCEPT !.route = GetTransactionsRoute, !.user = u, !.param = u]
     IN req' = [req EXCEPT ![r] =
                  IF RoleOf(u) # "customer" THEN Respond(q, 403, "Access denied")
                  ELSE IF u \notin DOMAIN accounts THEN Respond(q, 404, "Account not found")
                  ELSE [q EXCEPT !.pc = "rows"]]
  /\ UNCHANGED << otherVars, clock, accounts, transactions, txActive, txSnapshot, serial >>

\* GET /api/banker/customers/:id/transactions as request r: the role check
\* and the SELECT of the account of :id
ListCustomerTransactions(r, u, id) ==
  /\ impl = "server"
  /\ req[r].pc = "idle"
  /\ \A p \in ReqIds : p < r => req[p].pc # "idle"
  /\ LET q == [req[r] EXCEPT !.route = GetCustomerTransactionsRoute, !.user = u, !.param = id]
     IN req' = [req EXCEPT ![r] =
                  IF RoleOf(u) # "banker" THEN Respond(q, 403, "Access denied")
                  ELSE IF id \notin DOMAIN accounts THEN Respond(q, 404, "Account not found")
                  ELSE [q EXCEPT !.pc = "rows"]]
  /\ UNCHANGED << otherVars, clock, accounts, transactions, txActive, txSnapshot, serial >>

\* the second query of the two list endpoints, SELECT ... FROM transactions
\* WHERE account_id = ? ORDER BY created_at DESC, and res.json(transactions)
ListRows(r) ==
  /\ impl = "server"
  /\ req[r].pc = "rows"
  /\ req' = [req EXCEPT ![r].pc = "done", ![r].status = 200,
                        ![r].results = RowsNewestFirst(transactions, req[r].param)]
  /\ UNCHANGED << otherVars, clock, accounts, transactions, txActive, txSnapshot, serial >>

\* GET /api/banker/customers as request r: the role check, the SELECT of the
\* customers joined with their accounts, and the response
GetCustomers(r, u) ==
  /\ impl = "server"
  /\ req[r].pc = "idle"
  /\ \A p \in ReqIds : p < r => req[p].pc # "idle"
  /\ LET q == [req[r] EXCEPT !.route = GetCustomersRoute, !.user = u]
     IN req' = [req EXCEPT ![r] =
                  IF RoleOf(u) # "banker" THEN Respond(q, 403, "Access denied")
                  ELSE [q EXCEPT !.pc = "done", !.status = 200,
                                 !.results = [i \in 1..Len(SeedCustomers) |->
                                                accounts[SeedCustomers[i]]]]]
  /\ UNCHANGED << otherVars, clock, accounts, transactions, txActive, txSnapshot, serial >>

\* the leading digits of a text
DigitsPrefix(s) ==
  LET others == {i \in 1..Len(s) : ~IsDigit(s[i])}
  IN IF others = {} THEN s
     ELSE SubSeq(s, 1, (CHOOSE i \in others : \A j \in others : i <= j) - 1)

\* the number SQLite's SUM takes a stored value for: a number as it is, a
\* text by its leading digits (0 when it has none)
SqlNumeric(v) == CASE v.k = "num" -> v.n
                   [] v.k = "str" -> DigitsValue(DigitsPrefix(v.s))
                   [] OTHER -> 0

RECURSIVE SqlTotal(_)
SqlTotal(vals) == IF vals = << >> THEN 0 ELSE SqlNumeric(vals[1]) + SqlTotal(Tail(vals))

\* SELECT SUM(x): NULL values are skipped, and the sum of no value is NULL
SqlSum(vals) ==
  LET present == SelectSeq(vals, LAMBDA v : v.k # "null")
  IN IF present = << >> THEN Null ELSE Num(SqlTotal(present))

\* the amount column of the rows of one kind
AmountsOfType(rows, t) ==
  LET sel == SelectSeq(rows, LAMBDA x : x.type = t)
  IN [i \in 1..Len(sel) |-> sel[i].amount]

\* GET /api/banker/stats as request r: the role check and the first query,
\* SELECT COUNT(*) FROM users WHERE role = 'customer' (users never change)
StatsCustomers(r, u) ==
  /\ impl = "server"
  /\ req[r].pc = "idle"
  /\ \A p \in ReqIds : p < r => req[p].pc # "idle"
  /\ LET q == [req[r] EXCEPT !.route = GetStatsRoute, !.user = u]
     IN req' = [req EXCEPT ![r] =
                  IF RoleOf(u) # "banker" THEN Respond(q, 403, "Access denied")
                  ELSE [q EXCEPT !.pc = "totalBalance",
                                 !.results = << Num(Len(SeedCustomers)) >>]]
  /\ UNCHANGED << otherVars, clock, accounts, transactions, txActive, txSnapshot, serial >>

\* SELECT SUM(balance) as total FROM accounts
StatsBalance(r) ==
  /\ impl = "server"
  /\ req[r].pc = "totalBalance"
  /\ req' = [req EXCEPT ![r].pc = "totalDeposits",
                        ![r].results = Append(@, SqlSum([i \in 1..Len(SeedCustomers) |->
                                                           accounts[SeedCustomers[i]]]))]
  /\ UNCHANGED << otherVars, clock, accounts, transactions, txActive, txSnapshot, serial >>

\* SELECT SUM(amount) as total FROM transactions WHERE type = 'deposit'
StatsDeposits(r) ==
  /\ impl = "server"
  /\ req[r].pc = "totalDeposits"
  /\ req' = [req EXCEPT ![r].pc = "totalWithdrawals",
                        ![r].results = Append(@, SqlSum(AmountsOfType(transactions, "deposit")))]
  /\ UNCHANGED << otherVars, clock, accounts, transactions, txActive, txSnapshot, serial >>

\* the body of the stats response: customersCount.count and total || 0 of
\* the three sums
StatsBody(results) == << results[1], JsOr(results[2], Num(0)),
                         JsOr(results[3], Num(0)), JsOr(results[4], Num(0)) >>

\* SELECT SUM(amount) as total FROM transactions WHERE type = 'withdrawal',
\* and res.json of the four results
StatsWithdrawals(r) ==
  /\ impl = "server"
  /\ req[r].pc = "totalWithdrawals"
  /\ req' = [req EXCEPT ![r].pc = "done", ![r].status = 200,
                        ![r].results = StatsBody(Append(@, SqlSum(AmountsOfType(transactions,
                                                                               "withdrawal"))))]
  /\ UNCHANGED << otherVars, clock, accounts, transactions, txActive, txSnapshot, serial >>

\* the database and the connection after setupDatabase on a new bank.db; the
\* clock is that of the last INSERT of the seeding (where the server is not
\* what runs, the tables are not read and one seeding stands for all)
ServerInit == /\ accounts = SeedAccounts
              /\ serial = TRUE
              /\ \E seconds \in SeedSeconds :
                    /\ impl # "server" => seconds[Len(seconds)] = 0
                    /\ transactions = SeedTransactions(seconds)
                    /\ clock = seconds[Len(seconds)]
              /\ txActive = FALSE
              /\ txSnapshot = NoSnapshot
              /\ req = [r \in ReqIds |-> IdleReq]

(* ------------------------- in-memory mock store ------------------------ *)
\* the customers array of bankerService.ts; a date is a reading of the
\* clock, new Date().toISOString(), which has a resolution of one
\* millisecond: the scale keeps which reading is the later one and which
\* readings are equal, the program starts at 0, and the initial
\* transactions are dated 7 and 5 days before that
InitialDeposit == << "I", "n", "i", "t", "i", "a", "l", " ", "d", "e", "p", "o", "s", "i", "t" >>

AtmWithdrawal == << "A", "T", "M", " ", "w", "i", "t", "h", "d", "r", "a", "w", "a", "l" >>

InitialCustomers ==
  << [id |-> "johndoe", balance |-> Num(5000),
      transactions |-> << [id |-> 0 - 1, type |-> "deposit", amount |-> Num(2000), date |-> 0 - 7,
                           description |-> Str(InitialDeposit)],
                          [id |-> 0 - 2, type |-> "withdrawal", amount |-> Num(500), date |-> 0 - 5,
                           description |-> Str(AtmWithdrawal)] >>],
     [id |-> "janedoe", balance |-> Num(7500), transactions |-> << >>] >>

\* DEMO_CUSTOMER_ID = customers[0].id
DEMO_CUSTOMER_ID == InitialCustomers[1].id

\* the exported customers array with the demo customer taken out, as an
\* importer of the array can leave it (customers.shift()); no module of the
\* repository takes a customer out, and the array is given to the lookups
\* of accountService and bankerService as an input
WithoutDemoCustomer == SelectSeq(InitialCustomers, LAMBDA c : c.id # DEMO_CUSTOMER_ID)

CallIds == 1..MaxCalls

\* the params objects makeTransaction is called with
CallInputs == ValidBodies \cup OddBodies

\* overlapped notes that the call was made while another call was waiting;
\* since is the latest reading of the clock that had been taken when the
\* call set its timer
IdleCall == [st |-> "idle", type |-> "", amount |-> Undefined,
             result |-> "", newBalance |-> Undefined, overlapped |-> FALSE, since |-> 0]

\* customers.findIndex(c => c.id === customerId); 0 when there is none
FindCustomer(cs, customerId) ==
  IF \E i \in 1..Len(cs) : cs[i].id = customerId
  THEN CHOOSE i \in 1..Len(cs) : cs[i].id = customerId /\ \A j \in 1..(i - 1) : cs[j].id # customerId
  ELSE 0

\* updateCustomerBalance that forgets to store the new balance
updateCustomerBalanceKeepsBalance(cs, customerId, newBalance, transaction) ==
  LET customerIndex == FindCustomer(cs, customerId)
  IN IF customerIndex = 0 THEN cs
     ELSE [cs EXCEPT ![customerIndex].transactions = << transaction >> \o @]

\* updateCustomerBalance: set the balance, unshift the transaction
updateCustomerBalance(cs, customerId, newBalance, transaction) ==
  LET customerIndex == FindCustomer(cs, customerId)
  IN IF customerIndex = 0 THEN cs
     ELSE [cs EXCEPT ![customerIndex].balance = newBalance,
                     ![customerIndex].transactions = << transaction >> \o @]

\* makeTransaction: the call is made and waits for its 1000 ms timer
StartCall(c, t, a) ==
  /\ impl \in {"mock", "lookup"}
  /\ calls[c].st = "idle"
  /\ \A p \in CallIds : p < c => calls[p].st # "idle"
  /\ calls' = [calls EXCEPT ![c] = [IdleCall EXCEPT !.st = "delay", !.type = t, !.amount = a,
                                       !.overlapped = \E p \in CallIds : calls[p].st = "delay",
                                       !.since = clock]]
  /\ UNCHANGED << impl, browser, serverVars, customers, appVars, sbVars >>

\* makeTransaction after its timer, on the store cs with the params of q,
\* now being what new Date() reads: find, validate, compute, update, return,
\* in one synchronous run
makeTransaction(cs, q, c, now) ==
  LET idx == FindCustomer(cs, DEMO_CUSTOMER_ID)
  IN IF idx = 0
     THEN [customers |-> cs, result |-> "Customer not found", newBalance |-> Undefined]
     ELSE IF InsufficientFunds(q.type, q.amount, cs[idx].balance)
     THEN [customers |-> cs, result |-> "Insufficient funds", newBalance |-> Undefined]
     ELSE LET newBalance == NewBalance(q.type, q.amount, cs[idx].balance)
          IN [customers |-> updateCustomerBalance(cs, DEMO_CUSTOMER_ID, newBalance,
                               [id |-> c, type |-> q.type, amount |-> q.amount, date |-> now,
                                description |-> Undefined]),
              result |-> "success", newBalance |-> newBalance]

\* the timer of a call may fire in the millisecond of the latest reading of
\* the clock when that reading was taken while the timer was running; a
\* timer set after the reading fires 1000 ms later than it
TimerMayFire(c, elapsed) == elapsed > 0 \/ clock > calls[c].since

\* the timer of call c fires, elapsed after the latest reading of the clock;
\* equal timers fire in the order they were set
RunCall(c, elapsed) ==
  /\ impl \in {"mock", "lookup"}
  /\ calls[c].st = "delay"
  /\ \A p \in CallIds : p < c => calls[p].st = "done"
  /\ TimerMayFire(c, elapsed)
  /\ LET out == makeTransaction(customers, calls[c], c, clock + elapsed)
     IN /\ customers' = out.customers
        /\ calls' = [calls EXCEPT ![c].st = "done", ![c].result = out.result,
                                  ![c].newBalance = out.newBalance]
        /\ clock' = IF out.result = "success" THEN clock + elapsed ELSE clock
  /\ UNCHANGED << impl, browser, accounts, transactions, txActive, txSnapshot, req, serial,
                  appVars, sbVars >>

(* ------------------- the pages over the in-memory store ---------------- *)
\* the (type, amount) pairs the Transactions page submits
SubmitInputs == ValidBodies

\* the calls of makeTransaction that the Transactions page makes
SubmitIds == 1..MaxSubmits

\* the ids the banker pages ask for
CustomerIds == {"johndoe", "janedoe", "nobody"}

\* the limits getRecentTransactions is called with
Limits == {5}

\* items with x put behind every item that is dated no earlier than x
InsertByDate(x, items) ==
  LET n == Cardinality({i \in 1..Len(items) : items[i].date >= x.date})
  IN SubSeq(items, 1, n) \o << x >> \o SubSeq(items, n + 1, Len(items))

RECURSIVE SortByDateDesc(_)
\* items.sort((a, b) => new Date(b.date).getTime() - new Date(a.date).getTime())
SortByDateDesc(items) ==
  IF items = << >> THEN << >>
  ELSE InsertByDate(items[Len(items)], SortByDateDesc(SubSeq(items, 1, Len(items) - 1)))

\* customers.find(c => c.id === id)?.transactions || []
TransactionsOf(cs, id) ==
  IF FindCustomer(cs, id) = 0 THEN << >> ELSE cs[FindCustomer(cs, id)].transactions

\* the capital letters and their small letters
Capitals == << "A", "B", "C", "D", "E", "F", "G", "H", "I", "J", "K", "L", "M",
               "N", "O", "P", "Q", "R", "S", "T", "U", "V", "W", "X", "Y", "Z" >>

Smalls == << "a", "b", "c", "d", "e", "f", "g", "h", "i", "j", "k", "l", "m",
             "n", "o", "p", "q", "r", "s", "t", "u", "v", "w", "x", "y", "z" >>

\* the small letter of every capital letter
SmallOf == [c \in {Capitals[j] : j \in 1..Len(Capitals)} |->
              Smalls[CHOOSE j \in 1..Len(Capitals) : Capitals[j] = c]]

\* String.prototype.toLowerCase
ToLowerCase(s) == [i \in 1..Len(s) |-> IF s[i] \in DOMAIN SmallOf THEN SmallOf[s[i]] ELSE s[i]]

\* String.prototype.includes
Includes(s, term) ==
  \E i \in 0..(Len(s) - Len(term)) : SubSeq(s, i + 1, i + Len(term)) = term

\* the characters of a transaction type
TypeText(type) ==
  IF type = "deposit" THEN << "d", "e", "p", "o", "s", "i", "t" >>
  ELSE << "w", "i", "t", "h", "d", "r", "a", "w", "a", "l" >>

\* the options of the page's type filter and sort order, and the texts typed
\* into its search box
TypeFilters == {"all", "deposit", "withdrawal"}

SortOrders == {"date-desc", "date-asc", "amount-desc", "amount-asc"}

SearchTerms == { << >>, << "A", "l" >>, << "5" >> }

\* the comparator of sortTransactions gives a number above 0 for (a, b):
\* a is put behind b; a NaN counts as 0
ComparesAfter(a, b, order) ==
  CASE order = "date-desc" -> b.date - a.date > 0
    [] order = "date-asc" -> a.date - b.date > 0
    [] order = "amount-desc" -> NumberGt(JsSub(b.amount, a.amount), Num(0))
    [] OTHER -> NumberGt(JsSub(a.amount, b.amount), Num(0))

\* items, which are in order, with x put behind every item that the
\* comparator does not put behind x (the sort is stable)
InsertInOrder(x, items, order) ==
  LET n == Cardinality({i \in 1..Len(items) : ~ComparesAfter(items[i], x, order)})
  IN SubSeq(items, 1, n) \o << x >> \o SubSeq(items, n + 1, Len(items))

RECURSIVE sortTransactions(_, _)
\* sortTransactions: [...items].sort(comparator of the order)
sortTransactions(items, order) ==
  IF items = << >> THEN << >>
  ELSE InsertInOrder(items[Len(items)],
                     sortTransactions(SubSeq(items, 1, Len(items) - 1), order), order)

\* the search of the filter effect: the lower-cased term is in the type, in
\* the description when there is one, or in amount.toString()
MatchesSearch(t, searchTerm) ==
  LET term == ToLowerCase(searchTerm)
  IN \/ Includes(ToLowerCase(TypeText(t.type)), term)
     \/ ~JsNot(t.description) /\ Includes(ToLowerCase(JsToString(t.description)), term)
     \/ Includes(JsToString(t.amount), term)

\* the filter effect of the Transactions page on [transactions, typeFilter,
\* searchTerm, sortOrder]: filter by type, search, sort
ApplyFilters(items, typeFilter, searchTerm, sortOrder) ==
  LET typed == IF typeFilter # "all" THEN SelectSeq(items, LAMBDA t : t.type = typeFilter)
               ELSE items
      found == IF searchTerm # << >> THEN SelectSeq(typed, LAMBDA t : MatchesSearch(t, searchTerm))
               ELSE typed
  IN sortTransactions(found, sortOrder)

\* DEMO_CREDENTIALS.customers: the usernames loginUser returns for the two
\* demo customers
SessionUsers == {"John Doe", "Jane Smith"}

\* the state of a TransactionModal after its first render
ClosedModal == [amount |-> << >>, error |-> "", isSubmitting |-> FALSE]

\* the state of the Transactions page after its first render; shared tells
\* that the transactions state is the very array of the store, user is the
\* username of useAuth().user, modalType is "null" while no modal is shown,
\* modal is the state of the TransactionModal the page renders
MountedPage == [stage |-> "balance", balance |-> Num(0), shared |-> FALSE,
                transactions |-> << >>, filteredTransactions |-> << >>,
                searchTerm |-> << >>, typeFilter |-> "all", sortOrder |-> "date-desc",
                user |-> "John Doe", modalType |-> "null", modal |-> ClosedModal]

\* the items of the transactions state of the page
PageTransactions(pg, cs) ==
  IF pg.shared THEN TransactionsOf(cs, DEMO_CUSTOMER_ID) ELSE pg.transactions

\* a handleTransactionSubmit that updates the balance before the result of
\* makeTransaction is known
AfterSubmitEager(pg, out, q, c, now) ==
  [pg EXCEPT !.balance = IF q.type = "deposit" THEN JsAdd(@, q.amount) ELSE JsSub(@, q.amount)]

\* handleTransactionSubmit after await makeTransaction, now being what its
\* own new Date() reads: setBalance, setTransactions and the filter effect
\* on success, only console.error in the catch block
AfterSubmit(pg, out, q, c, now) ==
  IF out.result # "success" THEN pg
  ELSE LET newTransaction == [id |-> c, type |-> q.type, amount |-> q.amount, date |-> now,
                             description |-> Undefined]
           next == << newTransaction >> \o PageTransactions(pg, out.customers)
       IN [pg EXCEPT !.balance = IF q.type = "deposit" THEN JsAdd(@, q.amount)
                                 ELSE JsSub(@, q.amount),
                     !.shared = FALSE,
                     !.transactions = next,
                     !.filteredTransactions =
                        ApplyFilters(next, pg.typeFilter, pg.searchTerm, pg.sortOrder),
                     !.modalType = "null"]

\* fetchData of the Transactions page: getAccountBalance resolves
FetchBalance ==
  /\ impl \in {"app", "modal", "filters"}
  /\ page.stage = "balance"
  /\ page' = [page EXCEPT !.stage = "transactions",
                          !.balance = IF FindCustomer(customers, DEMO_CUSTOMER_ID) = 0 THEN Num(0)
                                      ELSE JsOr(customers[FindCustomer(customers, DEMO_CUSTOMER_ID)].balance,
                                                Num(0))]
  /\ got' = NoResponse
  /\ UNCHANGED << impl, browser, accounts, transactions, txActive, txSnapshot, req, serial, clock,
                  mockVars, sbVars >>

\* fetchData of the Transactions page: getTransactions resolves, the filter
\* effect runs
FetchTransactions ==
  /\ impl \in {"app", "modal", "filters"}
  /\ page.stage = "transactions"
  /\ page' = [page EXCEPT !.stage = "loaded", !.shared = TRUE,
                          !.filteredTransactions =
                             ApplyFilters(TransactionsOf(customers, DEMO_CUSTOMER_ID),
                                          page.typeFilter, page.searchTerm, page.sortOrder)]
  /\ got' = NoResponse
  /\ UNCHANGED << impl, browser, accounts, transactions, txActive, txSnapshot, req, serial, clock,
                  mockVars, sbVars >>

\* onChange of the search box: setSearchTerm(e.target.value), and the
\* filter effect
setSearchTerm(value) ==
  /\ impl = "filters"
  /\ value # page.searchTerm
  /\ page' = [page EXCEPT !.searchTerm = value,
                          !.filteredTransactions =
                             ApplyFilters(PageTransactions(page, customers), page.typeFilter,
                                          value, page.sortOrder)]
  /\ UNCHANGED << impl, browser, serverVars, mockVars, got, sbVars >>

\* onChange of the type select: setTypeFilter(e.target.value), and the
\* filter effect
setTypeFilter(value) ==
  /\ impl = "filters"
  /\ value # page.typeFilter
  /\ page' = [page EXCEPT !.typeFilter = value,
                          !.filteredTransactions =
                             ApplyFilters(PageTransactions(page, customers), value,
                                          page.searchTerm, page.sortOrder)]
  /\ UNCHANGED << impl, browser, serverVars, mockVars, got, sbVars >>

\* onChange of the sort select: setSortOrder(e.target.value), and the
\* filter effect
setSortOrder(value) ==
  /\ impl = "filters"
  /\ value # page.sortOrder
  /\ page' = [page EXCEPT !.sortOrder = value,
                          !.filteredTransactions =
                             ApplyFilters(PageTransactions(page, customers), page.typeFilter,
                                          page.searchTerm, value)]
  /\ UNCHANGED << impl, browser, serverVars, mockVars, got, sbVars >>

\* the Clear Filters button, shown under 'No transactions found' when the
\* page has loaded, nothing is listed and a search or type filter is set:
\* setSearchTerm(''), setTypeFilter('all'), and the filter effect
ClearFilters ==
  /\ impl = "filters"
  /\ page.stage = "loaded"
  /\ page.filteredTransactions = << >>
  /\ page.searchTerm # << >> \/ page.typeFilter # "all"
  /\ page' = [page EXCEPT !.searchTerm = << >>, !.typeFilter = "all",
                          !.filteredTransactions =
                             ApplyFilters(PageTransactions(page, customers), "all", << >>,
                                          page.sortOrder)]
  /\ UNCHANGED << impl, browser, serverVars, mockVars, got, sbVars >>

\* handleTransactionSubmit(type, amount) calls makeTransaction
HandleTransactionSubmit(c, t, a) ==
  /\ impl \in {"app", "filters"}
  /\ calls[c].st = "idle"
  /\ \A p \in CallIds : p < c => calls[p].st # "idle"
  /\ calls' = [calls EXCEPT ![c] = [IdleCall EXCEPT !.st = "delay", !.type = t, !.amount = a,
                                       !.overlapped = \E p \in CallIds : calls[p].st = "delay",
                                       !.since = clock]]
  /\ got' = NoResponse
  /\ UNCHANGED << impl, browser, accounts, transactions, txActive, txSnapshot, req, serial, clock,
                  customers, page, sbVars >>

\* the timer of the call fires, elapsed after the latest reading of the
\* clock, makeTransaction runs and dates its record, and
\* handleTransactionSubmit continues behind its await and dates its own
\* record, later after that
SubmitSettles(c, elapsed, later) ==
  /\ impl \in {"app", "modal", "filters"}
  /\ calls[c].st = "delay"
  /\ \A p \in CallIds : p < c => calls[p].st = "done"
  /\ TimerMayFire(c, elapsed)
  /\ LET out == makeTransaction(customers, calls[c], c, clock + elapsed)
     IN /\ customers' = out.customers
        /\ calls' = [calls EXCEPT ![c].st = "done", ![c].result = out.result,
                                  ![c].newBalance = out.newBalance]
        /\ page' = AfterSubmit(page, out, calls[c], c, clock + elapsed + later)
        /\ clock' = IF out.result = "success" THEN clock + elapsed + later ELSE clock
  /\ got' = NoResponse
  /\ UNCHANGED << impl, browser, accounts, transactions, txActive, txSnapshot, req, serial,
                  sbVars >>

\* getAccountBalance: customer?.balance || 0
GetAccountBalance ==
  /\ impl \in {"app", "lookup"}
  /\ got' = [NoResponse EXCEPT !.op = "getAccountBalance",
               !.value = IF FindCustomer(customers, DEMO_CUSTOMER_ID) = 0 THEN Num(0)
                         ELSE JsOr(customers[FindCustomer(customers, DEMO_CUSTOMER_ID)].balance, Num(0))]
  /\ UNCHANGED << impl, browser, accounts, transactions, txActive, txSnapshot, req, serial, clock,
                  mockVars, page, sbVars >>

\* getTransactions: customer?.transactions || []
GetTransactions ==
  /\ impl = "app"
  /\ got' = [NoResponse EXCEPT !.op = "getTransactions",
                               !.value = TransactionsOf(customers, DEMO_CUSTOMER_ID)]
  /\ UNCHANGED << impl, browser, accounts, transactions, txActive, txSnapshot, req, serial, clock,
                  mockVars, page, sbVars >>

\* getRecentTransactions: sort() orders the array of the store itself,
\* slice(0, limit) copies its head
GetRecentTransactions(limit) ==
  /\ impl = "app"
  /\ LET idx == FindCustomer(customers, DEMO_CUSTOMER_ID)
         sorted == SortByDateDesc(TransactionsOf(customers, DEMO_CUSTOMER_ID))
     IN /\ customers' = IF idx = 0 THEN customers
                        ELSE [customers EXCEPT ![idx].transactions = sorted]
        /\ got' = [NoResponse EXCEPT !.op = "getRecentTransactions",
                     !.value = SubSeq(sorted, 1, IF limit < Len(sorted) THEN limit ELSE Len(sorted))]
  /\ UNCHANGED << impl, browser, accounts, transactions, txActive, txSnapshot, req, serial, clock,
                  calls, page, sbVars >>

\* getAllCustomers: [...customers]
GetAllCustomers ==
  /\ impl = "app"
  /\ got' = [NoResponse EXCEPT !.op = "getAllCustomers", !.value = customers]
  /\ UNCHANGED << impl, browser, accounts, transactions, txActive, txSnapshot, req, serial, clock,
                  mockVars, page, sbVars >>

\* getCustomerDetails: the customer, or the error 'Customer not found'
GetCustomerDetails(customerId) ==
  /\ impl \in {"app", "lookup"}
  /\ got' = IF FindCustomer(customers, customerId) = 0
            THEN [NoResponse EXCEPT !.op = "getCustomerDetails", !.arg = customerId,
                                    !.error = "Customer not found"]
            ELSE [NoResponse EXCEPT !.op = "getCustomerDetails", !.arg = customerId,
                                    !.value = << customers[FindCustomer(customers, customerId)] >>]
  /\ UNCHANGED << impl, browser, accounts, transactions, txActive, txSnapshot, req, serial, clock,
                  mockVars, page, sbVars >>

\* getCustomerTransactions: customer?.transactions || []
GetCustomerTransactions(customerId) ==
  /\ impl = "app"
  /\ got' = [NoResponse EXCEPT !.op = "getCustomerTransactions", !.arg = customerId,
                               !.value = TransactionsOf(customers, customerId)]
  /\ UNCHANGED << impl, browser, accounts, transactions, txActive, txSnapshot, req, serial, clock,
                  mockVars, page, sbVars >>

RECURSIVE SumBalances(_)
\* customers.reduce((sum, customer) => sum + customer.balance, 0)
SumBalances(cs) ==
  IF cs = << >> THEN Num(0)
  ELSE JsAdd(SumBalances(SubSeq(cs, 1, Len(cs) - 1)), cs[Len(cs)].balance)

RECURSIVE SumOfType(_, _)
\* the amounts of the deposits (deposit = TRUE) or of the other
\* transactions of items, added in order to 0
SumOfType(items, deposit) ==
  IF items = << >> THEN Num(0)
  ELSE LET x == items[Len(items)]
           before == SumOfType(SubSeq(items, 1, Len(items) - 1), deposit)
       IN IF (x.type = "deposit") = deposit THEN JsAdd(before, x.amount) ELSE before

RECURSIVE AllTransactions(_)
\* the transactions of all customers, in the order forEach visits them
AllTransactions(cs) ==
  IF cs = << >> THEN << >>
  ELSE AllTransactions(SubSeq(cs, 1, Len(cs) - 1)) \o cs[Len(cs)].transactions

\* getBankStats
GetBankStats ==
  /\ impl = "app"
  /\ got' = [NoResponse EXCEPT !.op = "getBankStats",
               !.value = [totalCustomers |-> Len(customers),
                          totalBalance |-> SumBalances(customers),
                          totalDeposits |-> SumOfType(AllTransactions(customers), TRUE),
                          totalWithdrawals |-> SumOfType(AllTransactions(customers), FALSE)]]
  /\ UNCHANGED << impl, browser, accounts, transactions, txActive, txSnapshot, req, serial, clock,
                  mockVars, page, sbVars >>

(* ---------------- TransactionModal on the Transactions page ------------- *)
\* a text of 310 digits
Huge == [i \in 1..310 |-> "9"]

\* the values the amount input is set to by typing or pasting
AmountTexts == { << >>, << "." >>, << "0" >>, NatDigits(1500), NatDigits(5000), NatDigits(6000),
                 NatDigits(1500) \o << ".", "0", "0" >>, << "1", ".", "2", "3", "4" >>,
                 Abc, << "-", "5" >>, Huge }

\* /^\d*\.?\d{0,2}$/.test(value): digits, then nothing more or a point and
\* at most two digits
AmountPattern(value) ==
  LET rest == SubSeq(value, Len(DigitsPrefix(value)) + 1, Len(value))
  IN \/ rest = << >>
     \/ /\ rest[1] = "."
        /\ Len(rest) <= 3
        /\ \A j \in 2..Len(rest) : IsDigit(rest[j])

\* digits without their leading zeros
StripZeros(digits) ==
  LET others == {i \in 1..Len(digits) : digits[i] # "0"}
  IN IF others = {} THEN << >>
     ELSE SubSeq(digits, CHOOSE i \in others : \A j \in others : i <= j, Len(digits))

\* parseFloat(s): the longest prefix of s that is a decimal literal (digits,
\* then optionally a point and digits), NaN when it has no digit. At least
\* 310 significant integer digits are more than the largest double and give
\* Infinity. The numbers of this model are the integers of up to 9 digits:
\* a text with a nonzero decimal or with 10 to 309 integer digits has no
\* value here and is not among AmountTexts.
ParseFloat(s) ==
  LET negative == s # << >> /\ s[1] = "-"
      body == IF negative THEN Tail(s) ELSE s
      whole == DigitsPrefix(body)
      rest == SubSeq(body, Len(whole) + 1, Len(body))
      decimals == IF rest # << >> /\ rest[1] = "." THEN DigitsPrefix(Tail(rest)) ELSE << >>
      magnitude == CASE Len(StripZeros(whole)) >= 310 -> Infinity
                     [] Len(StripZeros(whole)) <= 9 /\ StripZeros(decimals) = << >>
                          -> Num(DigitsValue(whole))
  IN IF whole = << >> /\ decimals = << >> THEN NaN
     ELSE IF negative THEN NumberNegate(magnitude) ELSE magnitude

\* the Deposit and Withdraw buttons of the page: setModalType(t); the effect
\* of the modal on [type] clears amount and error
OpenModal(t) ==
  /\ impl = "modal"
  /\ page.modalType = "null"
  /\ page' = [page EXCEPT !.modalType = t, !.modal.amount = << >>, !.modal.error = ""]
  /\ UNCHANGED << impl, browser, serverVars, mockVars, got, sbVars >>

\* onClose of the modal (backdrop, X and Cancel): setModalType(null)
CloseModal ==
  /\ impl = "modal"
  /\ page.modalType # "null"
  /\ page' = [page EXCEPT !.modalType = "null"]
  /\ UNCHANGED << impl, browser, serverVars, mockVars, got, sbVars >>

\* handleAmountChange: the input's value is taken when it is empty or
\* matches the pattern, and the error is cleared; otherwise nothing is set
handleAmountChange(value) ==
  /\ impl = "modal"
  /\ page.modalType # "null"
  /\ page' = IF value = << >> \/ AmountPattern(value)
             THEN [page EXCEPT !.modal.amount = value, !.modal.error = ""]
             ELSE page
  /\ UNCHANGED << impl, browser, serverVars, mockVars, got, sbVars >>

\* the checks of handleSubmit: the message of the first check that fails,
\* "" when all pass
SubmitError(amount, type, currentBalance) ==
  LET numAmount == ParseFloat(amount)
  IN IF amount = << >> \/ numAmount.k = "nan" THEN "Please enter a valid amount"
     ELSE IF JsLeZero(numAmount) THEN "Amount must be greater than zero"
     ELSE IF type = "withdrawal" /\ JsGt(numAmount, currentBalance) THEN "Insufficient funds"
     ELSE ""

\* handleSubmit, run by the form's submit button while it is enabled: a
\* failed check sets the error; otherwise setIsSubmitting(true) and
\* onSubmit(type, numAmount), which is handleTransactionSubmit up to its
\* await of makeTransaction
handleSubmit ==
  /\ impl = "modal"
  /\ page.modalType # "null"
  /\ ~page.modal.isSubmitting /\ page.modal.amount # << >>
  /\ LET error == SubmitError(page.modal.amount, page.modalType, page.balance)
     IN IF error # ""
        THEN /\ page' = [page EXCEPT !.modal.error = error]
             /\ UNCHANGED calls
        ELSE \E c \in SubmitIds :
                /\ calls[c].st = "idle"
                /\ \A p \in CallIds : p < c => calls[p].st # "idle"
                /\ page' = [page EXCEPT !.modal.isSubmitting = TRUE]
                /\ calls' = [calls EXCEPT ![c] =
                               [IdleCall EXCEPT !.st = "delay", !.type = page.modalType,
                                                !.amount = ParseFloat(page.modal.amount),
                                                !.overlapped = \E p \in CallIds : calls[p].st = "delay",
                                                !.since = clock]]
  /\ UNCHANGED << impl, browser, serverVars, customers, got, sbVars >>

MockInit == /\ customers = IF impl = "lookup" THEN WithoutDemoCustomer ELSE InitialCustomers
            /\ calls = [c \in CallIds |-> IdleCall]
            /\ page \in IF impl = "modal" THEN {[MountedPage EXCEPT !.user = u] : u \in SessionUsers}
                        ELSE {MountedPage}
            /\ got = NoResponse

(* ---------------------------- Supabase client -------------------------- *)
\* the authenticated users of the sessions that call createTransaction, and
\* the bodies they send
SbInputs == ({"u1"} \X (ValidBodies \cup { << "deposit", Str(Abc) >>, << "deposit", Num(0 - 5) >> }))
            \cup ({"u2"} \X { << "deposit", Num(1500) >> })

IdleSbCall == [pc |-> "idle", user |-> "", type |-> "", amount |-> Undefined,
               currentBalance |-> Undefined, newBalance |-> Undefined, result |-> ""]

\* ORDER BY created_at ASC in place of DESC: the first index of rows that
\* belongs to user
OldestRow(rows, user) ==
  IF \E i \in 1..Len(rows) : rows[i].user_id = user
  THEN CHOOSE i \in 1..Len(rows) :
         rows[i].user_id = user /\ \A j \in 1..(i - 1) : rows[j].user_id # user
  ELSE 0

\* WHERE user_id = $1 ORDER BY created_at DESC LIMIT 1: the last index of
\* rows that belongs to user, 0 when there is none
LatestRow(rows, user) ==
  IF \E i \in 1..Len(rows) : rows[i].user_id = user
  THEN CHOOSE i \in 1..Len(rows) :
         rows[i].user_id = user /\ \A j \in (i + 1)..Len(rows) : rows[j].user_id # user
  ELSE 0

\* public.get_current_balance: balance_after of the newest row, else 0
get_current_balance(rows, user) ==
  IF LatestRow(rows, user) = 0 THEN Num(0) ELSE rows[LatestRow(rows, user)].balance_after

\* getCurrentBalance: data || 0
getCurrentBalance(rows, user) == JsOr(get_current_balance(rows, user), Num(0))

\* a JSON value as a numeric column takes it; Null when it is refused
PgNumeric(v) == CASE v.k = "num" -> v
                  [] v.k = "str" -> IF IsNumericString(v.s) THEN Num(StringToInt(v.s)) ELSE Null
                  [] OTHER -> Null

\* the table's NOT NULL and CHECK constraints on an inserted row
InsertAccepted(type, amount, balance_after) ==
  /\ type \in {"deposit", "withdrawal"}
  /\ PgNumeric(amount).k = "num" /\ PgNumeric(amount).n > 0
  /\ PgNumeric(balance_after).k = "num"

\* createTransaction is called; supabase.auth.getUser() resolves
SbStart(c, u, t, a) ==
  /\ impl = "supabase"
  /\ sbCalls[c].pc = "idle"
  /\ \A p \in ReqIds : p < c => sbCalls[p].pc # "idle"
  /\ sbCalls' = [sbCalls EXCEPT ![c] = [IdleSbCall EXCEPT !.pc = "getBalance", !.user = u,
                                                         !.type = t, !.amount = a]]
  /\ UNCHANGED << impl, browser, serverVars, mockVars, appVars, sbTransactions >>

\* the get_current_balance rpc resolves; newBalance and the withdrawal check
SbGetBalance(c) ==
  /\ impl = "supabase"
  /\ sbCalls[c].pc = "getBalance"
  /\ LET q == sbCalls[c]
         currentBalance == getCurrentBalance(sbTransactions, q.user)
         newBalance == NewBalance(q.type, q.amount, currentBalance)
     IN sbCalls' = [sbCalls EXCEPT ![c] =
                      IF InsufficientFunds(q.type, q.amount, currentBalance)
                      THEN [q EXCEPT !.pc = "done", !.currentBalance = currentBalance,
                                     !.result = "Insufficient funds"]
                      ELSE [q EXCEPT !.pc = "insert", !.currentBalance = currentBalance,
                                     !.newBalance = newBalance]]
  /\ UNCHANGED << impl, browser, serverVars, mockVars, appVars, sbTransactions >>

\* the user ids getCurrentBalance is called with
SbReaders == {"u1", "u2"}

\* getCurrentBalance(userId) called on its own: the rpc resolves; the call
\* holds the value returned
SbReadBalance(c, u) ==
  /\ impl = "supabase"
  /\ sbCalls[c].pc = "idle"
  /\ \A p \in ReqIds : p < c => sbCalls[p].pc # "idle"
  /\ sbCalls' = [sbCalls EXCEPT ![c] =
                   [IdleSbCall EXCEPT !.pc = "done", !.user = u, !.result = "balance",
                                      !.currentBalance = getCurrentBalance(sbTransactions, u)]]
  /\ UNCHANGED << impl, browser, serverVars, mockVars, appVars, sbTransactions >>

\* the insert resolves: the row is stored, or the database refuses it
SbInsert(c) ==
  /\ impl = "supabase"
  /\ sbCalls[c].pc = "insert"
  /\ LET q == sbCalls[c]
     IN IF InsertAccepted(q.type, q.amount, q.newBalance)
        THEN /\ sbTransactions' = Append(sbTransactions,
                                    [id |-> c, user_id |-> q.user, type |-> q.type,
                                     amount |-> PgNumeric(q.amount),
                                     balance_after |-> PgNumeric(q.newBalance)])
             /\ sbCalls' = [sbCalls EXCEPT ![c].pc = "done", ![c].result = "success"]
        ELSE /\ sbCalls' = [sbCalls EXCEPT ![c].pc = "done", ![c].result = "error"]
             /\ UNCHANGED sbTransactions
  /\ UNCHANGED << impl, browser, serverVars, mockVars, appVars >>

SbInit == /\ sbTransactions = << >>
          /\ sbCalls = [c \in ReqIds |-> IdleSbCall]

(* ------------------ AuthProvider, the routes of App ---------------------- *)
\* the strings that occur in stored users, as their characters
RoleKey == << "r", "o", "l", "e" >>
UsernameKey == << "u", "s", "e", "r", "n", "a", "m", "e" >>
Customer == << "c", "u", "s", "t", "o", "m", "e", "r" >>
Banker == << "b", "a", "n", "k", "e", "r" >>
Admin == << "a", "d", "m", "i", "n" >>
JohnDoe == << "J", "o", "h", "n", " ", "D", "o", "e" >>
JaneSmith == << "J", "a", "n", "e", " ", "S", "m", "i", "t", "h" >>
BankAdmin == << "B", "a", "n", "k", " ", "A", "d", "m", "i", "n" >>
SeniorManager == << "S", "e", "n", "i", "o", "r", " ", "M", "a", "n", "a", "g", "e", "r" >>

\* an object: its members in insertion order, each << key, value >>
Obj(members) == [k |-> "obj", n |-> 0, s |-> members]

\* the UserData loginUser resolves with (id and token are fresh uuids that
\* nothing reads; they are left out)
UserData(username, role) == Obj(<< << UsernameKey, Str(username) >>, << RoleKey, Str(role) >> >>)

DEMO_CREDENTIALS ==
  [customers |-> << [accountNumber |-> "1001234567", password |-> "customer123",
                     username |-> JohnDoe],
                    [accountNumber |-> "1001234568", password |-> "customer456",
                     username |-> JaneSmith] >>,
   bankers |-> << [adminCode |-> "ADMIN001", password |-> "banker123", username |-> BankAdmin],
                  [adminCode |-> "ADMIN002", password |-> "banker456",
                   username |-> SeniorManager] >>]

\* loginUser after its 800 ms timer: the first demo account of the role
\* whose number or code and password are those of params, or the error
\* (ok = FALSE)
loginUser(params) ==
  LET found == IF params.role = Customer
               THEN SelectSeq(DEMO_CREDENTIALS.customers,
                              LAMBDA c : c.accountNumber = params.accountNumber
                                         /\ c.password = params.password)
               ELSE SelectSeq(DEMO_CREDENTIALS.bankers,
                              LAMBDA b : b.adminCode = params.adminCode
                                         /\ b.password = params.password)
  IN IF found = << >> THEN [ok |-> FALSE, value |-> Undefined]
     ELSE [ok |-> TRUE, value |-> UserData(found[1].username, params.role)]

\* v.key, undefined when v has no such member
Member(v, key) ==
  IF v.k = "obj" /\ \E i \in 1..Len(v.s) : v.s[i][1] = key
  THEN v.s[CHOOSE i \in 1..Len(v.s) : v.s[i][1] = key /\ \A j \in (i + 1)..Len(v.s) : v.s[j][1] # key][2]
  ELSE Undefined

\* JSON texts as their tokens: punctuation, white space, the literals null
\* and 0, and string literals with the string they denote
Tok(t) == [t |-> t, v |-> << >>]
StrTok(chars) == [t |-> "string", v |-> chars]

\* the token of a value that is written as one token
ScalarTok(v) == CASE v.k = "str" -> StrTok(v.s)
                  [] v.k = "num" /\ v.n = 0 -> Tok("0")
                  [] OTHER -> Tok("null")

RECURSIVE MemberToks(_)
\* "key":value of each member, separated by commas
MemberToks(members) ==
  IF members = << >> THEN << >>
  ELSE << StrTok(members[1][1]), Tok(":"), ScalarTok(members[1][2]) >>
       \o (IF Len(members) > 1 THEN << Tok(",") >> ELSE << >>)
       \o MemberToks(Tail(members))

\* JSON.stringify of null, 0, a string, or an object of such members
JsonStringify(v) == IF v.k = "obj" THEN << Tok("{") >> \o MemberToks(v.s) \o << Tok("}") >>
                    ELSE << ScalarTok(v) >>

\* the value of a token that is a value by itself
ScalarOf(tok) == CASE tok.t = "string" -> Str(tok.v)
                   [] tok.t = "0" -> Num(0)
                   [] OTHER -> Null

IsScalarTok(tok) == tok.t \in {"string", "0", "null"}

\* JSON.parse: white space is skipped; ok is FALSE where it throws a
\* SyntaxError
JsonParse(text) ==
  LET toks == SelectSeq(text, LAMBDA tok : tok.t # " ")
      n == Len(toks)
      inner == SubSeq(toks, 2, n - 1)
      count == (Len(inner) + 1) \div 4
  IN IF n = 1 /\ IsScalarTok(toks[1]) THEN [ok |-> TRUE, value |-> ScalarOf(toks[1])]
     ELSE IF /\ n >= 2 /\ toks[1].t = "{" /\ toks[n].t = "}"
             /\ (inner = << >> \/ Len(inner) % 4 = 3)
             /\ \A i \in 1..Len(inner) :
                   CASE i % 4 = 1 -> inner[i].t = "string"
                     [] i % 4 = 2 -> inner[i].t = ":"
                     [] i % 4 = 3 -> IsScalarTok(inner[i])
                     [] OTHER -> inner[i].t = ","
          THEN [ok |-> TRUE,
                value |-> Obj([i \in 1..(IF inner = << >> THEN 0 ELSE count) |->
                                 << inner[4 * i - 3].v, ScalarOf(inner[4 * i - 1]) >>])]
     ELSE [ok |-> FALSE, value |-> Undefined]

\* the values of localStorage 'bankUser' when the application starts: none,
\* what login stored for a customer and for a banker, a user with another
\* role, the same customer written with white space, and texts that are no
\* user: null, 0, the empty text and a text that is no JSON
StoredUsers ==
  { [present |-> FALSE, text |-> << >>] } \cup
  { [present |-> TRUE, text |-> t] :
      t \in { JsonStringify(UserData(JohnDoe, Customer)), JsonStringify(UserData(BankAdmin, Banker)),
              JsonStringify(UserData(BankAdmin, Admin)),
              << Tok("{"), Tok(" "), StrTok(RoleKey), Tok(":"), Tok(" "), StrTok(Customer), Tok(" "), Tok("}") >>,
              << Tok("null") >>, << Tok("0") >>, << >>, << Tok("{") >> } }

\* the locations: the routes of App, one customer id for /banker/customers/:id
\* and one path that no route matches
Paths == { "/", "/login", "/banker/login", "/customer/dashboard", "/customer/transactions",
           "/banker/dashboard", "/banker/customers/1", "/nowhere" }

\* !!user
isAuthenticated(user) == ~JsNot(user)

\* a rendered page, or a Navigate element and its target
Shows(element) == [view |-> element, to |-> ""]
NavigateTo(path) == [view |-> "Navigate", to |-> path]

\* ProtectedRoute whose role check is left out
ProtectedRouteAnyRole(b, role, children) ==
  IF b.isLoading THEN Shows("Loading")
  ELSE IF ~isAuthenticated(b.user) THEN NavigateTo("/login")
  ELSE Shows(children)

\* ProtectedRoute with a role, in the state b of the AuthProvider
ProtectedRoute(b, role, children) ==
  IF b.isLoading THEN Shows("Loading")
  ELSE IF ~isAuthenticated(b.user) THEN NavigateTo("/login")
  ELSE IF Member(b.user, RoleKey) # Str(role)
       THEN NavigateTo(IF Member(b.user, RoleKey) = Str(Customer) THEN "/customer/dashboard"
                       ELSE "/banker/dashboard")
  ELSE Shows(children)

\* what Routes renders at a location
Route(b, path) ==
  CASE path = "/" -> NavigateTo("/login")
    [] path = "/login" -> Shows("LoginPage")
    [] path = "/banker/login" -> Shows("BankerLoginPage")
    [] path = "/customer/dashboard" -> ProtectedRoute(b, Customer, "CustomerDashboard")
    [] path = "/customer/transactions" -> ProtectedRoute(b, Customer, "CustomerTransactions")
    [] path = "/banker/dashboard" -> ProtectedRoute(b, Banker, "BankerDashboard")
    [] path = "/banker/customers/1" -> ProtectedRoute(b, Banker, "CustomerDetail")
    [] OTHER -> Shows("NotFoundPage")

\* the pages inside DashboardLayout
DashboardPages == {"CustomerDashboard", "CustomerTransactions", "BankerDashboard", "CustomerDetail"}

\* the login pages whose handleSubmit waits for loginUser are no longer
\* rendered
Unmounted(pending) == [i \in 1..Len(pending) |-> [pending[i] EXCEPT !.mounted = FALSE]]

\* the location changes to path: a login page that was rendered is
\* unmounted when the location is another one
MoveTo(b, path) ==
  [b EXCEPT !.path = path, !.pending = IF path = b.path THEN @ ELSE Unmounted(@)]

\* login of AuthProvider: setUser and localStorage.setItem
login(b, userData) ==
  [b EXCEPT !.user = userData,
            !.storage = [present |-> TRUE, text |-> JsonStringify(userData)]]

\* logout of AuthProvider: setUser(null) and localStorage.removeItem
logout(b) == [b EXCEPT !.user = Null, !.storage = [present |-> FALSE, text |-> << >>]]

\* the effect of AuthProvider: the stored user is parsed and set, a text
\* that does not parse is removed, and loading ends
LoadStoredUser ==
  /\ impl = "router"
  /\ browser.isLoading
  /\ LET storedUser == browser.storage
         truthy == storedUser.present /\ storedUser.text # << >>
         parsed == JsonParse(storedUser.text)
     IN browser' = [browser EXCEPT
                      !.last = "LoadStoredUser",
                      !.isLoading = FALSE,
                      !.user = IF truthy /\ parsed.ok THEN parsed.value ELSE @,
                      !.storage = IF truthy /\ ~parsed.ok THEN [present |-> FALSE, text |-> << >>]
                                  ELSE @]
  /\ UNCHANGED << impl, serverVars, mockVars, appVars, sbVars >>

\* the effect of a rendered Navigate element: the location is replaced
FollowNavigate ==
  /\ impl = "router"
  /\ Route(browser, browser.path).view = "Navigate"
  /\ browser' = MoveTo([browser EXCEPT !.last = "FollowNavigate"],
                       Route(browser, browser.path).to)
  /\ UNCHANGED << impl, serverVars, mockVars, appVars, sbVars >>

\* what is typed into the first field (account number or admin code) and
\* the password field of the two login forms
LoginForms == { << "1001234567", "customer123" >>, << "1001234568", "customer456" >>,
                << "ADMIN001", "banker123" >>, << "ADMIN002", "banker456" >>,
                << "1001234567", "customer456" >>, << "", "customer123" >> }

\* handleSubmit of LoginPage and of BankerLoginPage up to its await: an
\* empty field gives a toast only; otherwise setIsLoading(true), which
\* disables the button of this page while it stays mounted, and loginUser
\* is called with the role of the page and waits for its timer
SubmitLogin(code, password) ==
  /\ impl = "router"
  /\ ~browser.isLoading
  /\ Route(browser, browser.path).view \in {"LoginPage", "BankerLoginPage"}
  /\ \A i \in 1..Len(browser.pending) : ~browser.pending[i].mounted
  /\ browser' =
       IF code = "" \/ password = "" THEN [browser EXCEPT !.last = "SubmitLogin"]
       ELSE [browser EXCEPT
               !.last = "SubmitLogin",
               !.pending = Append(@, IF Route(browser, browser.path).view = "LoginPage"
                                     THEN [role |-> Customer, accountNumber |-> code,
                                           adminCode |-> "", password |-> password,
                                           mounted |-> TRUE]
                                     ELSE [role |-> Banker, accountNumber |-> "",
                                           adminCode |-> code, password |-> password,
                                           mounted |-> TRUE])]
  /\ Len(browser'.pending) <= MaxPending
  /\ UNCHANGED << impl, serverVars, mockVars, appVars, sbVars >>

\* the timer of the oldest loginUser call fires and handleSubmit goes on
\* behind its await, wherever the location is by now: login(userData) and
\* navigate to the dashboard of the page that was submitted, or the toast
\* of the catch block; then setIsLoading(false)
LoginSettles ==
  /\ impl = "router"
  /\ browser.pending # << >>
  /\ LET params == Head(browser.pending)
         result == loginUser(params)
         rest == [browser EXCEPT !.last = "LoginSettles", !.pending = Tail(@)]
     IN browser' = IF result.ok
                   THEN MoveTo(login(rest, result.value),
                               IF params.role = Customer THEN "/customer/dashboard"
                               ELSE "/banker/dashboard")
                   ELSE rest
  /\ UNCHANGED << impl, serverVars, mockVars, appVars, sbVars >>

\* handleLogout of DashboardLayout: logout(), which clears the user and the
\* stored item, and navigate('/login')
Logout ==
  /\ impl = "router"
  /\ Route(browser, browser.path).view \in DashboardPages
  /\ browser' = MoveTo(logout([browser EXCEPT !.last = "Logout"]), "/login")
  /\ UNCHANGED << impl, serverVars, mockVars, appVars, sbVars >>

\* a link or the history moves the loaded application to another location
Visit(path) ==
  /\ impl = "router"
  /\ ~browser.isLoading
  /\ browser' = MoveTo([browser EXCEPT !.last = "Visit"], path)
  /\ UNCHANGED << impl, serverVars, mockVars, appVars, sbVars >>

\* the application as it starts at a location with a stored value: loading,
\* no user, no loginUser call waiting; last names the step taken last
BrowserInit ==
  browser \in IF impl = "router"
              THEN { [isLoading |-> TRUE, user |-> Null, storage |-> st, path |-> p, last |-> "",
                      pending |-> << >>] :
                       st \in StoredUsers, p \in Paths }
              ELSE { [isLoading |-> TRUE, user |-> Null,
                      storage |-> [present |-> FALSE, text |-> << >>], path |-> "/", last |-> "",
                      pending |-> << >>] }

(* --------------------------- the specification ------------------------- *)
vars == << impl, accounts, transactions, txActive, txSnapshot, req, serial, got,
           customers, calls, page, sbTransactions, sbCalls, browser, clock >>

Init == /\ impl \in {"server", "mock", "lookup", "app", "modal", "filters", "router", "supabase"}
        /\ BrowserInit
        /\ ServerInit
        /\ MockInit
        /\ SbInit

Next == \/ \E r \in ReqIds, i \in ReqInputs : Receive(r, i[1], i[2][1], i[2][2])
        \/ \E r \in ReqIds : GetAccount(r)
        \/ \E r \in ReqIds : Begin(r)
        \/ \E r \in ReqIds : Update(r)
        \/ \E r \in ReqIds, elapsed \in Elapsed : Insert(r, elapsed)
        \/ \E r \in ReqIds : Commit(r)
        \/ \E r \in ReqIds : Rollback(r)
        \/ \E r \in ReqIds, u \in BalanceReaders : GetBalance(r, u)
        \/ \E r \in ReqIds, u \in BankerCallers, id \in CustomerParams : GetCustomer(r, u, id)
        \/ \E r \in ReqIds, u \in BalanceReaders : ListTransactions(r, u)
        \/ \E r \in ReqIds, u \in BankerCallers, id \in CustomerParams :
              ListCustomerTransactions(r, u, id)
        \/ \E r \in ReqIds : ListRows(r)
        \/ \E r \in ReqIds, u \in BankerCallers : GetCustomers(r, u)
        \/ \E r \in ReqIds, u \in BankerCallers : StatsCustomers(r, u)
        \/ \E r \in ReqIds : StatsBalance(r)
        \/ \E r \in ReqIds : StatsDeposits(r)
        \/ \E r \in ReqIds : StatsWithdrawals(r)
        \/ \E c \in CallIds, i \in CallInputs : StartCall(c, i[1], i[2])
        \/ \E c \in CallIds, elapsed \in Elapsed : RunCall(c, elapsed)
        \/ FetchBalance
        \/ FetchTransactions
        \/ \E value \in SearchTerms : setSearchTerm(value)
        \/ \E value \in TypeFilters : setTypeFilter(value)
        \/ \E value \in SortOrders : setSortOrder(value)
        \/ ClearFilters
        \/ \E c \in SubmitIds, i \in SubmitInputs : HandleTransactionSubmit(c, i[1], i[2])
        \/ \E c \in SubmitIds, elapsed \in Elapsed, later \in Elapsed :
              SubmitSettles(c, elapsed, later)
        \/ GetAccountBalance
        \/ GetTransactions
        \/ \E limit \in Limits : GetRecentTransactions(limit)
        \/ GetAllCustomers
        \/ \E customerId \in CustomerIds : GetCustomerDetails(customerId)
        \/ \E customerId \in CustomerIds : GetCustomerTransactions(customerId)
        \/ GetBankStats
        \/ \E t \in {"deposit", "withdrawal"} : OpenModal(t)
        \/ CloseModal
        \/ \E value \in AmountTexts : handleAmountChange(value)
        \/ handleSubmit
        \/ LoadStoredUser
        \/ FollowNavigate
        \/ \E form \in LoginForms : SubmitLogin(form[1], form[2])
        \/ LoginSettles
        \/ Logout
        \/ \E path \in Paths : Visit(path)
        \/ \E c \in ReqIds, i \in SbInputs : SbStart(c, i[1], i[2][1], i[2][2])
        \/ \E c \in ReqIds : SbGetBalance(c)
        \/ \E c \in ReqIds : SbInsert(c)
        \/ \E c \in ReqIds, u \in SbReaders : SbReadBalance(c, u)

Spec == Init /\ [][Next]_vars

(* ------------------------------ ledgers -------------------------------- *)
\* the rows of one account, in stored order
RowsOf(rows, a) == SelectSeq(rows, LAMBDA x : x.account_id = a)

AllNumeric(rows) == \A i \in 1..Len(rows) : rows[i].amount.k = "num"

RECURSIVE LedgerSum(_)
\* sum of the deposit amounts minus sum of the withdrawal amounts
LedgerSum(rows) ==
  IF rows = << >> THEN 0
  ELSE (IF rows[1].type = "deposit" THEN rows[1].amount.n ELSE 0 - rows[1].amount.n)
       + LedgerSum(Tail(rows))

Quiescent == \A r \in ReqIds : ~InFlight(r)

\* every request sent so far carries a valid kind and a positive number
OnlyValidRequests == \A r \in ReqIds : req[r].pc # "idle" => << req[r].type, req[r].amount >> \in ValidBodies

OnlyValidCalls == \A c \in CallIds : calls[c].st # "idle" => << calls[c].type, calls[c].amount >> \in ValidBodies

RECURSIVE SumAmounts(_)
\* total of the (numeric) amounts of a set of requests
SumAmounts(rs) == IF rs = {} THEN 0
                  ELSE LET r == CHOOSE x \in rs : TRUE
                       IN req[r].amount.n + SumAmounts(rs \ {r})

\* the requests of one kind on one account that were answered with success
Accepted(a, type) == {r \in ReqIds : req[r].status = 200 /\ req[r].user = a /\ req[r].type = type}

(* ------------------------------- claims -------------------------------- *)

\* C1 (as claimed): on the server and in the mock store every account's
\* stored balance equals the sum of its recorded deposits minus the sum of
\* its recorded withdrawals.
C1_BalanceIdentity ==
  /\ impl = "server" =>
       \A a \in DOMAIN Committed.accounts :
          /\ AllNumeric(RowsOf(Committed.transactions, a))
          /\ Committed.accounts[a] = Num(LedgerSum(RowsOf(Committed.transactions, a)))
  /\ impl = "mock" =>
       \A i \in 1..Len(customers) :
          /\ AllNumeric(customers[i].transactions)
          /\ customers[i].balance = Num(LedgerSum(customers[i].transactions))

\* C2 (as claimed): on the server the withdrawals of an account that were
\* answered with success never total more than the funds available, the
\* seeded balance plus the deposits answered with success.
C2_NoDoubleSpend ==
  (impl = "server" /\ OnlyValidRequests) =>
     \A a \in DOMAIN accounts :
        SumAmounts(Accepted(a, "withdrawal")) <= SeedBalance + SumAmounts(Accepted(a, "deposit"))

\* C3 (as claimed): a request that ends in an error response or a throw
\* leaves balances and transactions rows as they were; so when every
\* request so far has ended that way (here: requests with valid bodies),
\* the database is the seeded one.
C3_AtomicOnFailure ==
  (impl = "server" /\ OnlyValidRequests /\ Quiescent /\ \A r \in ReqIds : req[r].status # 200) =>
     /\ accounts = SeedAccounts
     /\ \E seconds \in SeedSeconds : transactions = SeedTransactions(seconds)

\* C4: requests (calls) with a valid kind and a positive numeric amount
\* never drive a stored balance below 0, on the server (the connection's
\* view and the state on disk) and in the mock store.
C4_NonNegative ==
  /\ (impl = "server" /\ OnlyValidRequests) =>
       \A a \in DOMAIN accounts :
          /\ accounts[a].k = "num" /\ accounts[a].n >= 0
          /\ Committed.accounts[a].k = "num" /\ Committed.accounts[a].n >= 0
  /\ (impl = "mock" /\ OnlyValidCalls) =>
       \A i \in 1..Len(customers) : customers[i].balance.k = "num" /\ customers[i].balance.n >= 0

\* C4 witness: two withdrawals of the whole balance were both answered with
\* success and the stored balance is 0
C4_Witness ==
  /\ impl = "server"
  /\ OnlyValidRequests
  /\ \E r, p \in ReqIds :
       /\ r # p
       /\ req[r].user = req[p].user
       /\ req[r].status = 200 /\ req[r].type = "withdrawal" /\ req[r].amount = Num(SeedBalance)
       /\ req[p].status = 200 /\ req[p].type = "withdrawal" /\ req[p].amount = Num(SeedBalance)
       /\ accounts[req[r].user] = Num(0)

\* the rows of one Supabase user, oldest first
SbRowsOf(rows, u) == SelectSeq(rows, LAMBDA x : x.user_id = u)

SbUsers == {i[1] : i \in SbInputs}

\* C5 (as claimed): in a user's rows ordered by creation each balance_after
\* is the previous balance_after (0 before the first row) plus the amount of
\* a deposit or minus the amount of a withdrawal.
C5_BalanceAfterChain ==
  impl = "supabase" =>
    \A u \in SbUsers :
      LET rows == SbRowsOf(sbTransactions, u)
      IN \A i \in 1..Len(rows) :
           LET prev == IF i = 1 THEN 0 ELSE rows[i - 1].balance_after.n
           IN rows[i].balance_after.n =
                (IF rows[i].type = "deposit" THEN prev + rows[i].amount.n
                 ELSE prev - rows[i].amount.n)

\* the number of makeTransaction calls that have run
CallsRun == Cardinality({c \in CallIds : calls[c].st = "done"})

\* the records of L without the reading of the clock they are dated with
Undated(L) == [i \in 1..Len(L) |-> [id |-> L[i].id, type |-> L[i].type, amount |-> L[i].amount,
                                     description |-> L[i].description]]

RECURSIVE SerialRun(_)
\* the demo customer's balance and transactions (undated), and the outcome
\* of each call, after the calls 1..n have run one after another on the
\* initial store
SerialRun(n) ==
  IF n = 0
  THEN [balance |-> InitialCustomers[1].balance,
        transactions |-> Undated(InitialCustomers[1].transactions),
        outcomes |-> << >>]
  ELSE LET before == SerialRun(n - 1)
           q == calls[n]
       IN IF q.type = "withdrawal" /\ JsGt(q.amount, before.balance)
          THEN [before EXCEPT !.outcomes = Append(@, << "Insufficient funds", Undefined >>)]
          ELSE LET after == IF q.type = "deposit" THEN JsAdd(before.balance, q.amount)
                            ELSE JsSub(before.balance, q.amount)
               IN [balance |-> after,
                   transactions |-> << [id |-> n, type |-> q.type, amount |-> q.amount,
                                         description |-> Undefined] >>
                                      \o before.transactions,
                   outcomes |-> Append(before.outcomes, << "success", after >>)]

\* C6: the balance, the transaction list and every call's outcome in the
\* mock store are those of running the calls that have finished one after
\* another (in the order their timers were set), whatever calls were
\* waiting at the same time: the list has the records of that run in its
\* order, no record of a call is dated earlier than the record of a call
\* before it, and the initial records keep their dates; the other customer
\* is untouched.
C6_MockSerial ==
  impl = "mock" =>
    /\ \A c \in CallIds : calls[c].st = "done" <=> c <= CallsRun
    /\ customers[1].balance = SerialRun(CallsRun).balance
    /\ Undated(customers[1].transactions) = SerialRun(CallsRun).transactions
    /\ \A i, j \in 1..Len(customers[1].transactions) :
         LET L == customers[1].transactions
         IN /\ (L[i].id > 0 /\ L[j].id > 0 /\ L[i].id < L[j].id) => L[i].date <= L[j].date
            /\ L[i].id < 0 => L[i] \in {InitialCustomers[1].transactions[k] :
                                          k \in 1..Len(InitialCustomers[1].transactions)}
    /\ \A c \in 1..CallsRun :
         << calls[c].result, calls[c].newBalance >> = SerialRun(CallsRun).outcomes[c]
    /\ customers[2] = InitialCustomers[2]

\* C6 witness: three calls that waited at the same time have all run, one
\* was accepted and a later one was refused for insufficient funds
C6_Witness ==
  /\ impl = "mock"
  /\ \A c \in CallIds : calls[c].st = "done"
  /\ \E c, d \in CallIds :
       /\ c < d
       /\ calls[c].overlapped /\ calls[d].overlapped
       /\ calls[c].result = "success" /\ calls[c].type = "withdrawal"
       /\ calls[d].result = "Insufficient funds"

\* the rows on disk that a request of this run inserted
RequestRows == SelectSeq(Committed.transactions, LAMBDA x : x.id > 0)

\* C7 (as claimed): every request answered with success has exactly one row
\* on disk, with its type and amount; every row on disk belongs to a
\* request answered with success; and once no request is in flight each
\* balance on disk is the seeded balance changed by exactly the accepted
\* requests.
C7_OneRecordPerAccepted ==
  (impl = "server" /\ OnlyValidRequests) =>
    /\ \A r \in ReqIds : req[r].status = 200 =>
         /\ Len(SelectSeq(RequestRows, LAMBDA x : x.id = r)) = 1
         /\ \E i \in 1..Len(RequestRows) :
              /\ RequestRows[i].id = r
              /\ RequestRows[i].type = req[r].type
              /\ RequestRows[i].amount = req[r].amount
              /\ RequestRows[i].account_id = req[r].user
    /\ \A i \in 1..Len(RequestRows) : req[RequestRows[i].id].status = 200
    /\ Quiescent =>
         \A a \in DOMAIN Committed.accounts :
            Committed.accounts[a] = Num(SeedBalance + SumAmounts(Accepted(a, "deposit"))
                                          - SumAmounts(Accepted(a, "withdrawal")))

\* C8 (as claimed): a step of a request leaves the balance and the rows of
\* every account other than the requesting user's as they were (shown for
\* requests with valid bodies).
C8_CrossAccountIndependence ==
  [][\A r \in ReqIds :
       (impl = "server" /\ OnlyValidRequests' /\ req'[r] # req[r]) =>
          \A a \in DOMAIN accounts :
             a # req'[r].user =>
                /\ accounts'[a] = accounts[a]
                /\ RowsOf(transactions', a) = RowsOf(transactions, a)]_vars

\* an amount that is missing, not a number, zero or negative
InvalidAmount(a) == a.k # "num" \/ a.n <= 0

\* C9 (as claimed): a customer's request (a call) whose amount is missing,
\* non-numeric, zero or negative ends with the invalid-amount error and
\* stores nothing.
C9_InvalidAmountRejected ==
  /\ impl = "server" =>
       \A r \in ReqIds :
          (Finished(r) /\ req[r].route = PostTransaction /\ RoleOf(req[r].user) = "customer"
           /\ InvalidAmount(req[r].amount)) =>
             /\ req[r].status = 400
             /\ \A i \in 1..Len(transactions) : transactions[i].id # r
  /\ impl = "mock" =>
       \A c \in CallIds :
          (calls[c].st = "done" /\ InvalidAmount(calls[c].amount)) =>
             /\ calls[c].result \notin {"success", "Insufficient funds"}
             /\ \A i \in 1..Len(customers[1].transactions) : customers[1].transactions[i].id # c

\* a withdrawal of a number against a balance that is a number
NumericWithdrawal(type, amount, balance) ==
  type = "withdrawal" /\ amount.k = "num" /\ balance.k = "num"

\* C10, server: the step that reads the account refuses a withdrawal above
\* the balance with 'Insufficient funds' and writes nothing, and lets a
\* withdrawal equal to the balance pass with newBalance 0; when that request
\* is answered with success and no other request is in flight, the stored
\* balance is 0.
C10_Server ==
  \A r \in ReqIds :
    /\ (req[r].pc = "getAccount" /\ req'[r].pc # "getAccount"
        /\ NumericWithdrawal(req[r].type, req[r].amount, accounts[req[r].user])) =>
          /\ req[r].amount.n > accounts[req[r].user].n =>
               /\ req'[r].status = 400 /\ req'[r].error = "Insufficient funds"
               /\ accounts' = accounts /\ transactions' = transactions
          /\ req[r].amount.n = accounts[req[r].user].n =>
               /\ req'[r].pc = "begin" /\ req'[r].newBalance = Num(0)
    /\ (req[r].pc = "commit" /\ req'[r].status = 200
        /\ NumericWithdrawal(req[r].type, req[r].amount, req[r].balance)
        /\ req[r].amount.n = req[r].balance.n
        /\ \A p \in ReqIds \ {r} : ~InFlight(p)) =>
          /\ accounts'[req[r].user] = Num(0)
          /\ \E i \in 1..Len(transactions') : transactions'[i].id = r

\* C10, mock: the run of a call refuses a withdrawal above the balance with
\* 'Insufficient funds' and leaves the store as it was, and accepts a
\* withdrawal equal to the balance, which leaves balance 0.
C10_Mock ==
  \A c \in CallIds :
    (calls[c].st = "delay" /\ calls'[c].st = "done"
     /\ NumericWithdrawal(calls[c].type, calls[c].amount, customers[1].balance)) =>
       /\ calls[c].amount.n > customers[1].balance.n =>
            /\ calls'[c].result = "Insufficient funds"
            /\ customers' = customers
       /\ calls[c].amount.n = customers[1].balance.n =>
            /\ calls'[c].result = "success" /\ calls'[c].newBalance = Num(0)
            /\ customers'[1].balance = Num(0)
            /\ Len(customers'[1].transactions) = Len(customers[1].transactions) + 1

\* C10, Supabase: the step that reads the balance refuses a withdrawal above
\* it with 'Insufficient funds' and inserts nothing, and lets a withdrawal
\* equal to it pass; its insert then stores a row after which the user's
\* balance is 0.
C10_Supabase ==
  \A c \in ReqIds :
    LET q == sbCalls[c]
        bal == getCurrentBalance(sbTransactions, q.user)
    IN /\ (q.pc = "getBalance" /\ sbCalls'[c].pc # "getBalance"
           /\ NumericWithdrawal(q.type, q.amount, bal)) =>
             /\ q.amount.n > bal.n =>
                  /\ sbCalls'[c].result = "Insufficient funds" /\ sbCalls'[c].pc = "done"
                  /\ sbTransactions' = sbTransactions
             /\ q.amount.n = bal.n =>
                  /\ sbCalls'[c].pc = "insert" /\ sbCalls'[c].newBalance = Num(0)
       /\ (q.pc = "insert" /\ sbCalls'[c].pc = "done"
           /\ NumericWithdrawal(q.type, q.amount, q.currentBalance)
           /\ q.amount.n = q.currentBalance.n) =>
             /\ sbCalls'[c].result = "success"
             /\ Len(sbTransactions') = Len(sbTransactions) + 1
             /\ getCurrentBalance(sbTransactions', q.user) = Num(0)

\* C10: a withdrawal strictly above the current balance is refused with the
\* insufficient-funds error and changes neither balance nor history; a
\* withdrawal equal to the balance is accepted and leaves balance 0; in the
\* server handler, the mock makeTransaction and the Supabase
\* createTransaction.
C10_InsufficientFunds ==
  [][/\ impl = "server" => C10_Server
     /\ impl = "mock" => C10_Mock
     /\ impl = "supabase" => C10_Supabase]_vars

\* C10 witness: on the server a withdrawal of the whole balance was answered
\* with success and left balance 0, and a further withdrawal was refused for
\* insufficient funds
C10_Witness ==
  /\ impl = "server"
  /\ \E r, p \in ReqIds :
       /\ req[r].status = 200 /\ req[r].type = "withdrawal"
       /\ req[r].amount = req[r].balance /\ req[r].newBalance = Num(0)
       /\ req[p].status = 400 /\ req[p].error = "Insufficient funds"
       /\ req[p].user = req[r].user /\ req[p].balance = Num(0)
       /\ accounts[req[r].user] = Num(0)

\* C11 (as claimed): a request or call whose kind is neither deposit nor
\* withdrawal is rejected and stores nothing, on the server and in the mock
\* makeTransaction.
C11_InvalidKindRejected ==
  /\ impl = "server" =>
       \A r \in ReqIds :
          (Finished(r) /\ req[r].route = PostTransaction /\ RoleOf(req[r].user) = "customer"
           /\ req[r].type \notin {"deposit", "withdrawal"}) =>
             /\ req[r].status = 400
             /\ \A i \in 1..Len(transactions) : transactions[i].id # r
  /\ impl = "mock" =>
       \A c \in CallIds :
          (calls[c].st = "done" /\ calls[c].type \notin {"deposit", "withdrawal"}) =>
             /\ calls[c].result # "success"
             /\ \A i \in 1..Len(customers[1].transactions) : customers[1].transactions[i].id # c

\* C17 (as claimed): every request that entered the server handler is
\* answered; none is left without a response.
C17_EveryRequestAnswered ==
  impl = "server" => \A r \in ReqIds : req[r].pc # "thrown"

\* C12: the get_current_balance rpc answers 0 for a user without rows and
\* else the balance_after of the user's newest row; and right after a
\* createTransaction that succeeded getCurrentBalance gives the newBalance
\* of that call.
C12_LatestBalance ==
  [][impl = "supabase" =>
       \A c \in ReqIds :
          LET q == sbCalls[c]
              mine == SbRowsOf(sbTransactions, q.user)
          IN /\ (q.pc = "getBalance" /\ sbCalls'[c].pc # "getBalance") =>
                   sbCalls'[c].currentBalance =
                      IF mine = << >> THEN Num(0) ELSE mine[Len(mine)].balance_after
             /\ (q.pc = "insert" /\ sbCalls'[c].result = "success") =>
                   /\ getCurrentBalance(sbTransactions', q.user) = sbCalls'[c].newBalance
                   /\ get_current_balance(sbTransactions', q.user) = sbCalls'[c].newBalance]_vars

\* C12 witness: a user's second createTransaction read the balance the first
\* one left, both succeeded, another user has no rows and a balance of 0
C12_Witness ==
  /\ impl = "supabase"
  /\ \E c, d \in ReqIds :
       /\ c < d /\ sbCalls[c].user = sbCalls[d].user
       /\ sbCalls[c].result = "success" /\ sbCalls[d].result = "success"
       /\ sbCalls[d].currentBalance = sbCalls[c].newBalance
       /\ sbCalls[d].newBalance # sbCalls[c].newBalance
       /\ Len(SbRowsOf(sbTransactions, sbCalls[c].user)) = 2
       /\ getCurrentBalance(sbTransactions, sbCalls[d].user) = sbCalls[d].newBalance
  /\ \E u \in SbUsers : SbRowsOf(sbTransactions, u) = << >> /\ getCurrentBalance(sbTransactions, u) = Num(0)

\* b + amount for a deposit, b - amount for a withdrawal, as numbers
Arithmetic(type, amount, b) == IF type = "deposit" THEN Num(b.n + amount.n) ELSE Num(b.n - amount.n)

\* C13: a successful deposit or withdrawal of a number on a numeric balance
\* b, with no other transaction request overlapping on the server, stores
\* b + amount or b - amount, and the newBalance it returns is the stored
\* balance; on the server (at COMMIT) and in the mock makeTransaction.
C13_BalanceArithmetic ==
  [][/\ impl = "server" =>
          \A r \in ReqIds :
             LET q == req[r]
             IN (/\ q.pc = "commit" /\ req'[r].status = 200 /\ serial
                 /\ q.type \in {"deposit", "withdrawal"} /\ q.amount.k = "num"
                 /\ Committed.accounts[q.user].k = "num") =>
                    /\ accounts'[q.user] = Arithmetic(q.type, q.amount, Committed.accounts[q.user])
                    /\ req'[r].newBalance = accounts'[q.user]
                    /\ ~txActive'
     /\ impl \in {"mock", "app"} =>
          \A c \in CallIds :
             LET q == calls[c]
             IN (/\ q.st = "delay" /\ calls'[c].result = "success"
                 /\ q.type \in {"deposit", "withdrawal"} /\ q.amount.k = "num"
                 /\ customers[1].balance.k = "num") =>
                    /\ customers'[1].balance = Arithmetic(q.type, q.amount, customers[1].balance)
                    /\ calls'[c].newBalance = customers'[1].balance]_vars

\* C13 witness: on the server a deposit of 1500 and then a withdrawal of
\* 5000 ran one after the other on johndoe's 5000: 6500, then 1500
C13_Witness ==
  /\ impl = "server" /\ serial
  /\ \E r, p \in ReqIds :
       /\ r < p /\ req[r].user = "johndoe" /\ req[p].user = "johndoe"
       /\ req[r].status = 200 /\ req[r].type = "deposit" /\ req[r].amount = Num(1500)
       /\ req[r].newBalance = Num(6500)
       /\ req[p].status = 200 /\ req[p].type = "withdrawal" /\ req[p].amount = Num(5000)
       /\ req[p].balance = Num(6500) /\ req[p].newBalance = Num(1500)
       /\ accounts["johndoe"] = Num(1500) /\ ~txActive

\* the items of L1 are all in L2, with the same fields and in the same
\* relative order (the items of a stored list are distinct)
KeptInOrder(L1, L2) == SelectSeq(L2, LAMBDA x : \E i \in 1..Len(L1) : L1[i] = x) = L1

\* C14 (as claimed): whatever operation runs, the list getTransactions or
\* getCustomerTransactions returns for a customer before it is contained, in
\* the same relative order, in the list returned after it.
C14_MonotonicAppend ==
  [][(impl = "mock" \/ impl = "app") =>
       \A id \in CustomerIds :
          KeptInOrder(TransactionsOf(customers, id), TransactionsOf(customers', id))]_vars

\* C15 (as claimed): a step of a read operation (the read services of the
\* mock store, the GET balance endpoint of the server) leaves every balance
\* and every stored transaction sequence, contents and order, as it was.
C15_ReadsDoNotMutate ==
  [][/\ (impl = "app" /\ got'.op # "") => customers' = customers
     /\ (impl = "server" /\ \E r \in ReqIds : req[r].pc = "idle" /\ req'[r].route = GetAccountBalanceRoute) =>
           /\ accounts' = accounts
           /\ transactions' = transactions]_vars

\* every transaction request sent so far carries a valid kind and a positive
\* number
OnlyValidPosts ==
  \A r \in ReqIds : req[r].route = PostTransaction => << req[r].type, req[r].amount >> \in ValidBodies

\* C16 (as claimed): the balance a GET /api/account/balance request answers
\* with is the account's committed balance: it holds no effect of a
\* transaction request that has not committed (shown for transaction
\* requests with valid bodies).
C16_NoDirtyReads ==
  [][impl = "server" =>
       \A r \in ReqIds :
          (/\ req[r].pc = "idle" /\ req'[r].route = GetAccountBalanceRoute /\ req'[r].status = 200
           /\ OnlyValidPosts) =>
             req'[r].balance = Committed.accounts[req'[r].user]]_vars

NewestFirst(L) == \A i, j \in 1..Len(L) : i < j => L[i].date >= L[j].date

\* C19 (as claimed): after successful makeTransaction calls, the list that
\* getTransactions returns holds the initial transactions and one record
\* per successful call, of the demo customer only, newest first.
C19_ListNewestFirst ==
  (/\ impl = "app" /\ got.op = "getTransactions"
   /\ \E c \in CallIds : calls[c].result = "success") =>
     /\ Len(got.value) = Len(InitialCustomers[1].transactions)
                         + Cardinality({c \in CallIds : calls[c].result = "success"})
     /\ \A c \in CallIds : calls[c].result = "success" => \E i \in 1..Len(got.value) : got.value[i].id = c
     /\ \A k \in 1..Len(InitialCustomers[1].transactions) :
           \E i \in 1..Len(got.value) : got.value[i] = InitialCustomers[1].transactions[k]
     /\ NewestFirst(got.value)

\* C20: when the makeTransaction call of a handleTransactionSubmit rejects,
\* the balance and the list that the Transactions page displays, and the
\* transactions behind the list, stay what they were before the call
\* settled.
C20_FailureLeavesPage ==
  [][(impl = "app" \/ impl = "modal" \/ impl = "filters") =>
       \A c \in SubmitIds :
          (calls[c].st = "delay" /\ calls'[c].st = "done" /\ calls'[c].result # "success") =>
             /\ page'.balance = page.balance
             /\ page'.filteredTransactions = page.filteredTransactions
             /\ PageTransactions(page', customers') = PageTransactions(page, customers)
             /\ customers' = customers]_vars

\* C20 witness: the page has loaded, a withdrawal of the whole balance went
\* through and is displayed, and a further withdrawal was rejected for
\* insufficient funds
C20_Witness ==
  /\ impl = "app"
  /\ \E c, d \in SubmitIds :
       /\ c < d
       /\ calls[c].result = "success" /\ calls[c].type = "withdrawal"
       /\ calls[d].st = "done" /\ calls[d].result = "Insufficient funds"
  /\ page.stage = "loaded"
  /\ page.balance = Num(0) /\ customers[1].balance = Num(0)
  /\ Len(page.filteredTransactions) > Len(InitialCustomers[1].transactions)

(* ------------------------- roles on the server -------------------------- *)
CustomerRoutes == {GetAccountBalanceRoute, GetTransactionsRoute, PostTransaction}

BankerRoutes == {GetCustomersRoute, GetCustomerRoute, GetCustomerTransactionsRoute, GetStatsRoute}

\* request r is answered 403 and holds nothing read from the database
Denied(q) == /\ q.pc = "done" /\ q.status = 403 /\ q.error = "Access denied"
             /\ q.balance = Undefined /\ q.newBalance = Undefined /\ q.results = << >>

\* C27: on the server the customer endpoints (balance, transactions, post
\* transaction) answer 403 to a user whose role is not 'customer' and the
\* /api/banker endpoints answer 403 to a user whose role is not 'banker',
\* in the step that receives the request and without reading or changing a
\* balance or a row; and no step of a banker's request or of a request to
\* a /api/banker endpoint changes a balance or a row.
C27_RoleGated ==
  [][impl = "server" =>
       \A r \in ReqIds :
          /\ (/\ req[r].pc = "idle" /\ req'[r].pc # "idle"
              /\ \/ req'[r].route \in CustomerRoutes /\ RoleOf(req'[r].user) # "customer"
                 \/ req'[r].route \in BankerRoutes /\ RoleOf(req'[r].user) # "banker") =>
                /\ Denied(req'[r])
                /\ accounts' = accounts /\ transactions' = transactions
                /\ txActive' = txActive
          /\ (/\ req'[r] # req[r]
              /\ RoleOf(req'[r].user) = "banker" \/ req'[r].route \in BankerRoutes) =>
                /\ accounts' = accounts /\ transactions' = transactions
                /\ txActive' = txActive]_vars

\* C27 witness: a banker's POST /api/account/transaction and a customer's
\* GET /api/banker/stats were both answered 403, and the database is the
\* seeded one
C27_Witness ==
  /\ impl = "server"
  /\ \E r, p \in ReqIds :
       /\ req[r].route = PostTransaction /\ req[r].user = "banker" /\ Denied(req[r])
       /\ req[r].type = "deposit"
       /\ req[p].route = GetStatsRoute /\ req[p].user = "johndoe" /\ Denied(req[p])
  /\ accounts = SeedAccounts
  /\ \E seconds \in SeedSeconds : transactions = SeedTransactions(seconds)

\* C28 (as claimed): every GET /api/banker/stats response satisfies
\* totalBalance = totalDeposits - totalWithdrawals, also when transaction
\* requests run while its four queries are awaited (shown for
\* transaction requests with valid bodies).
C28_StatsConsistent ==
  (impl = "server" /\ OnlyValidPosts) =>
     \A r \in ReqIds :
        (req[r].route = GetStatsRoute /\ req[r].status = 200) =>
           req[r].results[2].n = req[r].results[3].n - req[r].results[4].n

(* --------------------------- repeated reads ----------------------------- *)
\* what getAccountBalance of the mock store returns in a state
AccountBalanceOf(cs) ==
  IF FindCustomer(cs, DEMO_CUSTOMER_ID) = 0 THEN Num(0)
  ELSE JsOr(cs[FindCustomer(cs, DEMO_CUSTOMER_ID)].balance, Num(0))

\* C21: a balance read returns the account's balance in the state it reads
\* and changes nothing, and a step that is not a step of a transaction
\* (POST /api/account/transaction, makeTransaction, createTransaction)
\* leaves every account's balance as it is; so two balance reads of one
\* account with no transaction starting, running or committing between them
\* return the same value (GET /api/account/balance, getAccountBalance of
\* the mock store, getCurrentBalance of the Supabase client).
C21_IdempotentReads ==
  [][/\ impl = "server" =>
          /\ \A r \in ReqIds :
                (/\ req[r].pc = "idle" /\ req'[r].route = GetAccountBalanceRoute
                 /\ req'[r].status = 200) =>
                   /\ req'[r].balance = accounts[req'[r].user]
                   /\ accounts' = accounts
          /\ (\A p \in ReqIds : req'[p] # req[p] => req'[p].route # PostTransaction) =>
                accounts' = accounts
     /\ impl = "app" =>
          /\ got'.op = "getAccountBalance" =>
                got'.value = AccountBalanceOf(customers) /\ customers' = customers
          /\ calls' = calls => AccountBalanceOf(customers') = AccountBalanceOf(customers)
     /\ impl = "supabase" =>
          /\ \A c \in ReqIds :
                (sbCalls[c].pc = "idle" /\ sbCalls'[c].result = "balance") =>
                   /\ sbCalls'[c].currentBalance = getCurrentBalance(sbTransactions, sbCalls'[c].user)
                   /\ sbTransactions' = sbTransactions
          /\ (\A c \in ReqIds : sbCalls'[c] # sbCalls[c] => sbCalls'[c].result = "balance") =>
                \A u \in SbReaders :
                   getCurrentBalance(sbTransactions', u) = getCurrentBalance(sbTransactions, u)]_vars

\* C21 witness: after johndoe's deposit of 1500 committed, johndoe's GET
\* /api/account/balance was answered with 6500
C21_Witness ==
  /\ impl = "server"
  /\ \E r, p \in ReqIds :
       /\ req[r].route = PostTransaction /\ req[r].user = "johndoe" /\ req[r].status = 200
       /\ req[r].type = "deposit" /\ req[r].amount = Num(1500)
       /\ req[p].route = GetAccountBalanceRoute /\ req[p].user = "johndoe"
       /\ req[p].status = 200 /\ req[p].balance = Num(6500)
  /\ accounts["johndoe"] = Num(6500)

(* ------------------------- the Transactions page ------------------------ *)
\* how many items of L carry the id
IdCount(L, id) == Cardinality({i \in 1..Len(L) : L[i].id = id})

IdsOf(L) == {L[i].id : i \in 1..Len(L)}

\* C23 (as claimed): once the Transactions page has loaded and no
\* handleTransactionSubmit is waiting for makeTransaction, the balance it
\* displays is the store's balance of the demo customer, and the list it
\* displays while no type filter and no search term is set holds exactly
\* the ids of the store's list, each of them once.
C23_ShownExactlyOnce ==
  (/\ impl \in {"app", "modal", "filters"}
   /\ page.stage = "loaded"
   /\ page.typeFilter = "all" /\ page.searchTerm = << >>
   /\ \A c \in CallIds : calls[c].st # "delay") =>
     /\ page.balance = AccountBalanceOf(customers)
     /\ IdsOf(page.filteredTransactions) = IdsOf(TransactionsOf(customers, DEMO_CUSTOMER_ID))
     /\ \A id \in IdsOf(page.filteredTransactions) : IdCount(page.filteredTransactions, id) = 1

\* C24 (as claimed): the modal's isSubmitting is true only while a
\* submission waits for makeTransaction; so once the submission has
\* completed, the confirm button (disabled = isSubmitting || !amount) is
\* enabled as soon as an amount is entered.
C24_ModalUsableAgain ==
  impl = "modal" =>
     /\ page.modal.isSubmitting => \E c \in SubmitIds : calls[c].st = "delay"
     /\ (/\ \A c \in SubmitIds : calls[c].st # "delay"
         /\ page.modalType # "null" /\ page.modal.amount # << >>) =>
           ~(page.modal.isSubmitting \/ page.modal.amount = << >>)

\* the customer of the store that a session's username stands for: the
\* demo customers and the store's customers in their order
AccountOf(username) == IF username = "John Doe" THEN InitialCustomers[1].id
                       ELSE InitialCustomers[2].id

\* C25 (as claimed): a transaction made under one customer's session changes
\* only that customer's account: a step of a POST /api/account/transaction
\* request of user u leaves the balances and rows of the other accounts as
\* they are, and a makeTransaction call made on the page of a logged-in
\* customer leaves the other customers of the store as they are.
C25_CustomerIsolation ==
  [][/\ impl = "server" =>
          \A r \in ReqIds :
             (req'[r] # req[r] /\ req'[r].route = PostTransaction) =>
                /\ \A a \in DOMAIN accounts : a # req'[r].user => accounts'[a] = accounts[a]
                /\ \A a \in DOMAIN accounts : a # req'[r].user =>
                      SelectSeq(transactions', LAMBDA x : x.account_id = a)
                        = SelectSeq(transactions, LAMBDA x : x.account_id = a)
     /\ impl = "modal" =>
          \A c \in SubmitIds :
             (calls[c].st = "delay" /\ calls'[c].st = "done") =>
                \A i \in 1..Len(customers) :
                   customers[i].id # AccountOf(page.user) => customers'[i] = customers[i]]_vars

\* the amount the modal holds is a finite number greater than 0 with at
\* most two decimals and, for a withdrawal, not greater than currentBalance
ValidAmount(amount, type, currentBalance) ==
  /\ ParseFloat(amount).k = "num" /\ ParseFloat(amount).n > 0
  /\ AmountPattern(amount)
  /\ type = "withdrawal" => ~JsGt(ParseFloat(amount), currentBalance)

\* C30 (as claimed): TransactionModal calls onSubmit only with its type and
\* a finite amount greater than 0 that has at most two decimals and, for a
\* withdrawal, is not greater than currentBalance; and a handleSubmit that
\* sets an error message calls nothing.
C30_ValidationGate ==
  [][impl = "modal" =>
       /\ \A c \in SubmitIds :
             (calls[c].st = "idle" /\ calls'[c].st = "delay") =>
                /\ ValidAmount(page.modal.amount, page.modalType, page.balance)
                /\ calls'[c].type = page.modalType
                /\ calls'[c].amount = ParseFloat(page.modal.amount)
       /\ (page'.modal.error # "" /\ page'.modal.error # page.modal.error) =>
             calls' = calls /\ ~ValidAmount(page.modal.amount, page.modalType, page.balance)]_vars

(* ------------------------------ the routes ------------------------------ *)
\* what the router renders at the current location
View == Route(browser, browser.path)

CustomerPages == {"CustomerDashboard", "CustomerTransactions"}

BankerPages == {"BankerDashboard", "CustomerDetail"}

CustomerPaths == {"/customer/dashboard", "/customer/transactions"}

BankerPaths == {"/banker/dashboard", "/banker/customers/1"}

\* the role of the user, a string or undefined
UserRole == Member(browser.user, RoleKey)

\* C22: once loading has finished, the pages under ProtectedRoute with role
\* R are rendered only when the user is authenticated and user.role = R:
\* an unauthenticated visitor of a protected route is redirected to /login,
\* a customer on a banker route to /customer/dashboard, a banker on a
\* customer route to /banker/dashboard; so a customer page is never
\* rendered for a banker nor a banker page for a customer.
C22_RoleBasedRouting ==
  (impl = "router" /\ ~browser.isLoading) =>
     /\ View.view \in CustomerPages =>
           isAuthenticated(browser.user) /\ UserRole = Str(Customer) /\ browser.path \in CustomerPaths
     /\ View.view \in BankerPages =>
           isAuthenticated(browser.user) /\ UserRole = Str(Banker) /\ browser.path \in BankerPaths
     /\ (browser.path \in CustomerPaths \cup BankerPaths /\ ~isAuthenticated(browser.user)) =>
           View = NavigateTo("/login")
     /\ (browser.path \in BankerPaths /\ isAuthenticated(browser.user) /\ UserRole = Str(Customer)) =>
           View = NavigateTo("/customer/dashboard")
     /\ (browser.path \in CustomerPaths /\ isAuthenticated(browser.user) /\ UserRole = Str(Banker)) =>
           View = NavigateTo("/banker/dashboard")
     /\ (browser.path \in CustomerPaths /\ isAuthenticated(browser.user) /\ UserRole = Str(Customer)) =>
           View.view \in CustomerPages
     /\ (browser.path \in BankerPaths /\ isAuthenticated(browser.user) /\ UserRole = Str(Banker)) =>
           View.view \in BankerPages

\* C22 witness: the banker Senior Manager, who logged in, went to a
\* customer route and was redirected by ProtectedRoute to the banker
\* dashboard, which is rendered
C22_Witness ==
  /\ impl = "router" /\ ~browser.isLoading
  /\ browser.user = UserData(SeniorManager, Banker)
  /\ browser.last = "FollowNavigate"
  /\ browser.path = "/banker/dashboard" /\ View = Shows("BankerDashboard")

\* C26 (as claimed): for every user value that AuthProvider loads from
\* localStorage and every location, following the redirects that are
\* rendered reaches a rendered page after at most two redirects.
C26_RedirectsTerminate ==
  (impl = "router" /\ ~browser.isLoading) =>
     (View.view = "Navigate" =>
        (Route(browser, View.to).view = "Navigate" =>
           Route(browser, Route(browser, View.to).to).view # "Navigate"))

\* C29 (as claimed): once loading has finished, and after any logins and
\* logouts, isAuthenticated holds exactly when user is not null,
\* localStorage 'bankUser' holds the serialization of user when user is
\* not null and is absent when user is null.
C29_AuthAndStorageInStep ==
  (impl = "router" /\ ~browser.isLoading) =>
     /\ isAuthenticated(browser.user) <=> browser.user # Null
     /\ browser.user # Null =>
           browser.storage.present /\ browser.storage.text = JsonStringify(browser.user)
     /\ browser.user = Null => ~browser.storage.present
====
